---- MODULE Spec2Model ----
(***************************************************************************)
(* Model of the service discovery and connection pool subsystem of         *)
(* dcc_mcp_rpyc: client/pool.py (ConnectionPool and the module-level       *)
(* functions on the global pool), client/registry.py (ClientRegistry),     *)
(* client/base.py and client/dcc.py (the client handle), and the part of   *)
(* discovery/registry.py and discovery/file_strategy.py that               *)
(* ConnectionPool._discover_service goes through.                          *)
(*                                                                         *)
(* Time is the value of time.time(): a clock that never runs backwards and *)
(* that may return the same value to two successive reads.                 *)
(***************************************************************************)
EXTENDS Integers, Sequences, FiniteSets, TLC

VARIABLES
    now,          \* the current reading of time.time()
    pool,         \* ConnectionPool.pool: key -> [client, ts]
    lastCleanup,  \* ConnectionPool.last_cleanup
    clients,      \* the client handles the pool refers to, by identity
    clientReg,    \* client.registry.ClientRegistry._registry: category -> class
    regFile,      \* the registry file: dcc type -> service entry
    services,     \* ServiceRegistry._services: the cache, in insertion order
    lastOp,       \* what the last pool operation was given, did and returned
    fileKind,     \* what the bytes of the registry file are: a JSON object or not
    backups,      \* the backup copies of the registry file, by their time suffix
    strategies,   \* ServiceRegistry._strategies: the names registered
    instances,    \* ServiceRegistry._cached_instances
    lastCall,     \* what the last discovery operation was given, did and returned
    strategyOf,   \* ServiceRegistry._strategies: name -> the strategy instance
    factory,      \* ServiceDiscoveryFactory: kind -> the instance it built
    writers,      \* the processes inside register_service: where each one is
    threads,      \* the threads inside a pool method: where each one is
    dccServer,    \* a DCCServer object and the registry file of its process
    utilsCache    \* utils.discovery: _registry_loaded and _service_registry

vars == <<now, pool, lastCleanup, clients, clientReg, regFile, services, lastOp,
          fileKind, backups, strategies, instances, lastCall, strategyOf, factory,
          writers, threads, dccServer, utilsCache>>

\* the variables of the connection pool and of the discovery layer
poolVars == <<pool, lastCleanup, clients, clientReg, lastOp>>

registryVars == <<fileKind, backups, strategies, instances, lastCall,
                  strategyOf, factory, writers, threads>>

\* where the processes and threads that are inside an operation stand
stepVars == <<writers, threads>>

factoryVars == <<strategyOf, factory>>

\* the server object and the module state of utils.discovery in its process
serverVars == <<dccServer, utilsCache>>

(***************************************************************************)
(* Bounds of the model.                                                    *)
(***************************************************************************)
MaxTime == 2

(***************************************************************************)
(* Program constants, in model time units.                                 *)
(***************************************************************************)
MaxIdleTime == 1
CleanupInterval == 1
MaxAge == 1

DccNames == {"maya", "Maya"}
Hosts == {"h1"}
Ports == {1, 2}
NoHost == "None"
NoPort == 0 - 1
ClientKinds == {"BaseDCCClient", "CustomClient"}
NoAddr == [host |-> NoHost, port |-> NoPort]
FileTypes == {"maya"}
ServerAddrs == {[host |-> h, port |-> p] : h \in Hosts, p \in Ports}

\* a key that keeps the spelling of the caller
Lower_AsGiven(name) == name

\* str.lower() on the dcc names of the model
Lower(name) == IF name \in {"Maya", "MAYA"} THEN "maya" ELSE name

DccLower == {Lower(n) : n \in DccNames}
Keys == DccLower \X Hosts \X Ports

\* identities for client objects: one more than the pool can hold, so that a
\* newly constructed client always differs from every pooled one
ClientIds == 1 .. (Cardinality(Keys) + 1)

Put(f, k, v) == [x \in (DOMAIN f) \cup {k} |-> IF x = k THEN v ELSE f[x]]
Remove(f, k) == [x \in (DOMAIN f) \ {k} |-> f[x]]
Zeros == [c \in ClientIds |-> 0]
Once(cs) == [c \in ClientIds |-> IF c \in cs THEN 1 ELSE 0]

(***************************************************************************)
(* The client handle (client/base.py, client/dcc.py).  Its state is what   *)
(* is_connected() returns: connection is not None and not closed.          *)
(* kind "BaseDCCClient" is the standard client.  kind "CustomClient" is a  *)
(* class registered through ClientRegistry that offers connect,            *)
(* is_connected, ping and disconnect only: no close(), a ping() that       *)
(* raises when the server does not answer, a disconnect() that may raise,  *)
(* and a constructor that raises when auto_connect fails.                  *)
(***************************************************************************)
IsConnected(c) == c.connected

HasClose(c) == c.kind = "BaseDCCClient"

\* BaseApplicationClient.ping catches every error and returns False;
\* the custom client's ping raises when the server does not answer.
PingRaises(c, pingOk) == c.kind = "CustomClient" /\ ~pingOk

\* BaseApplicationClient.connect as the constructor runs it: a failure to
\* connect is logged and leaves connection None
Connected(c, reach) == [c EXCEPT !.connected = reach]

\* the constructor: BaseApplicationClient.__init__ connects when auto_connect
NewClient(kind, key, auto, reach) ==
    LET c == [kind |-> kind, host |-> key[2], port |-> key[3], connected |-> FALSE]
    IN  IF auto THEN Connected(c, reach) ELSE c

\* whether the constructor raises: the standard client never does
ConstructorRaises(kind, auto, reach) == kind = "CustomClient" /\ auto /\ ~reach

(***************************************************************************)
(* ConnectionPool._is_client_valid                                         *)
(***************************************************************************)
\* a validity check that skips is_connected()
IsClientValid_ProbeOnly(c, pingOk) == ~PingRaises(c, pingOk)

IsClientValid(c, pingOk) ==
    IF ~IsConnected(c) THEN FALSE
    ELSE ~PingRaises(c, pingOk)

(***************************************************************************)
(* ClientRegistry (client/registry.py), which ConnectionPool.get_client_   *)
(* class delegates to: a ValueError when no class is registered.           *)
(***************************************************************************)
NoClass == "ValueError"

GetClientClass(reg, name) ==
    IF Lower(name) \in DOMAIN reg THEN reg[Lower(name)] ELSE NoClass

(***************************************************************************)
(* Discovery as ConnectionPool._discover_service uses it.                  *)
(***************************************************************************)
\* a ServiceInfo: metadata is a set of <<key, value>> pairs
Service(type, name, host, port, metadata) ==
    [dcc_type |-> type, name |-> name, host |-> host, port |-> port,
     metadata |-> metadata]

NoMeta == {}

\* json.dump followed by json.load on a metadata value: a tuple comes back
\* as a list, a string as itself
JsonValue(v) == IF v = "tuple" THEN "list" ELSE v

JsonRoundTrip(metadata) == {<<kv[1], JsonValue(kv[2])>> : kv \in metadata}

\* an entry that records only the name and the address of the service
Entry_DropsMetadata(info, t) ==
    [shape |-> "object", name |-> info.name, host |-> info.host,
     port |-> info.port, timestamp |-> t, metadata |-> NoMeta]

\* the value register_service stores under the category, as it reads back
\* from the file: shape "object" is a single service object
Entry(info, t) ==
    [shape |-> "object", name |-> info.name, host |-> info.host,
     port |-> info.port, timestamp |-> t,
     metadata |-> JsonRoundTrip(info.metadata)]

\* the value utils.discovery.register_service stores under the category:
\* a list holding one service object {host, port, timestamp}
ListEntry(dcc, addr, t) ==
    [shape |-> "list", name |-> dcc, host |-> addr.host, port |-> addr.port,
     timestamp |-> t, metadata |-> NoMeta]

\* the contents a registry file can have: a JSON object (a missing file
\* reads as the empty object), JSON that is no object, text that is no JSON,
\* bytes that do not decode as text
FileKinds == {"object", "array", "text", "bytes"}

\* a register that starts from an empty store instead of the file
LoadRegistry_Skipped(kind, doc) == <<>>

\* FileDiscoveryStrategy._load_registry: the in-memory store it leaves
LoadRegistry(kind, doc) == IF kind = "object" THEN doc ELSE <<>>

\* whether _load_registry backs the file up: on a JSONDecodeError and on
\* JSON that is no object; undecodable bytes raise UnicodeDecodeError, which
\* only the outer handler catches
LoadBacksUp(kind) == kind \in {"array", "text"}

\* _backup_invalid_registry: a copy named after int(time.time())
BackupsAfterLoad(kind, bk, t) == IF LoadBacksUp(kind) THEN bk \cup {t} ELSE bk

\* a staleness test that already drops a record aged exactly MaxAge
IsStale_AtMaxAge(entry, t) == t - entry.timestamp >= MaxAge

\* a registry entry is stale when it is older than the max age
IsStale(entry, t) == t - entry.timestamp > MaxAge

\* the categories in the order the model lists a document's keys
CategoryOrder == <<"maya", "houdini", "Maya">>

NoType == "None"

\* FileDiscoveryStrategy.discover_services(service_type): exact match of the
\* type (every category when none is given), values that are no single
\* service object skipped, stale entries skipped
FileDiscover(file, name, t) ==
    LET Listed(c) == /\ c \in DOMAIN file
                     /\ (name = NoType \/ c = name)
                     /\ file[c].shape = "object"
                     /\ ~IsStale(file[c], t)
        cats == SelectSeq(CategoryOrder, Listed)
    IN  [i \in DOMAIN cats |->
            Service(cats[i], file[cats[i]].name, file[cats[i]].host,
                    file[cats[i]].port, file[cats[i]].metadata)]

\* the cache key of ServiceRegistry: f"{dcc_type}:{name}:{host}:{port}"
ServiceKey(s) == <<s.dcc_type, s.name, s.host, s.port>>

\* self._services[key] = service: an existing key keeps its place
CachePut(cache, s) ==
    IF \E i \in DOMAIN cache : ServiceKey(cache[i]) = ServiceKey(s)
    THEN [i \in DOMAIN cache |->
             IF ServiceKey(cache[i]) = ServiceKey(s) THEN s ELSE cache[i]]
    ELSE Append(cache, s)

\* ServiceRegistry.discover_services: every service found goes into the cache
RECURSIVE CacheUpdate(_, _)
CacheUpdate(cache, found) ==
    IF found = <<>> THEN cache
    ELSE CacheUpdate(CachePut(cache, Head(found)), Tail(found))

\* ServiceRegistry.get_service(dcc_type): the first cached service of the type
GetService(cache, name) ==
    LET hits == {i \in DOMAIN cache : cache[i].dcc_type = name}
    IN  IF hits = {} THEN NoAddr
        ELSE LET i == CHOOSE j \in hits : \A k \in hits : j <= k
             IN  [host |-> cache[i].host, port |-> cache[i].port]

\* what ZeroConfDiscoveryStrategy.discover_services can report first: a
\* service address, or nothing (no service, or an error that is logged)
ZeroConfResults == ServerAddrs \cup {NoAddr}

\* ConnectionPool._discover_service: ZeroConf first when enabled, otherwise
\* or as a fallback the file strategy through ServiceRegistry
DiscoverService(cache, file, name, useZc, zc, t) ==
    IF useZc /\ zc # NoAddr
    THEN [host |-> zc.host, port |-> zc.port, cache |-> cache,
          zcTried |-> TRUE, fileTried |-> FALSE]
    ELSE LET cache1 == CacheUpdate(cache, FileDiscover(file, name, t))
             info == GetService(cache1, name)
         IN  [host |-> info.host, port |-> info.port, cache |-> cache1,
              zcTried |-> useZc, fileTried |-> TRUE]

NoDiscovery(cache) ==
    [host |-> NoHost, port |-> NoPort, cache |-> cache,
     zcTried |-> FALSE, fileTried |-> FALSE]

\* a resolution that falls back to a default host
ResolveHost_Default(discovered, host) ==
    IF discovered # NoHost THEN discovered
    ELSE IF host # NoHost THEN host ELSE "h1"

\* host = discovered_host or host; port = discovered_port or port
ResolveHost(discovered, host) == IF discovered # NoHost THEN discovered ELSE host

ResolvePort(discovered, port) == IF discovered # NoPort THEN discovered ELSE port

(***************************************************************************)
(* ConnectionPool.cleanup_idle_connections, as functions of the pool.      *)
(***************************************************************************)
\* an idleness test that already evicts an entry idle for max_idle_time
IsIdle_AtMax(entry, t) == t - entry.ts >= MaxIdleTime

\* cleanup_idle_connections: now - timestamp > self.max_idle_time
IsIdle(entry, t) == t - entry.ts > MaxIdleTime

IdleKeys(p, t) == {k \in DOMAIN p : IsIdle(p[k], t)}

IdleClients(p, t) == {p[k].client : k \in IdleKeys(p, t)}

\* the handles of the idle entries on which the pass calls close(): those
\* that have a callable close
ClosedOnEvict(p, cl, t) == {c \in IdleClients(p, t) : HasClose(cl[c])}

CleanupPool(p, t) == [k \in (DOMAIN p) \ IdleKeys(p, t) |-> p[k]]

CleanupClients(p, cl, t) == [c \in (DOMAIN cl) \ IdleClients(p, t) |-> cl[c]]

IdleOp == [op |-> "none", key |-> <<>>, ret |-> 0, err |-> "none",
           ok |-> FALSE, built |-> FALSE, pooled |-> 0, wasConnected |-> FALSE,
           valid |-> FALSE, auto |-> FALSE, reach |-> FALSE, pingOk |-> FALSE,
           needDisc |-> FALSE, zcTried |-> FALSE, fileTried |-> FALSE,
           found |-> NoAddr, cleaned |-> {}, evicted |-> {}, raised |-> {},
           reconnects |-> 0, disconnects |-> Zeros, closes |-> Zeros,
           host |-> NoHost, port |-> NoPort, name |-> NoType]

StrategyNames == {"file", "other"}

\* the kinds ensure_strategy is asked for
StrategyKinds == {"file", "zeroconf", "invalid"}

\* the keyword arguments of a strategy constructor: none, or a registry path
Kwargs == {"default", "custom"}

\* a strategy instance, known by who constructed it, its kind and the
\* keyword arguments it was constructed with
StrategyInstance(by, kind, kwargs) == [by |-> by, kind |-> kind, kwargs |-> kwargs]

NoStrategy == StrategyInstance("none", "none", "none")

\* FileDiscoveryStrategy() constructed by the caller of register_strategy
CallerBuilt(kind) == StrategyInstance("caller", kind, "default")

\* _cached_instances before the first get_available_dcc_instances
NoInstances == [cached |-> FALSE, listed |-> <<>>]

NoInfo == Service(NoType, NoType, NoHost, NoPort, NoMeta)

\* the record of a call on a file strategy or on the ServiceRegistry: inst
\* is the strategy instance called, at the clock reading of the call, had
\* whether the category was in the loaded store, store the in-memory store
\* the call left, found the list returned, listed the instances returned
IdleCall == [op |-> "none", inst |-> 0, at |-> 0, ret |-> FALSE, err |-> "none",
             info |-> NoInfo, type |-> NoType, strategy |-> "none", io |-> "ok",
             had |-> FALSE, refresh |-> FALSE,
             order |-> <<>>, raising |-> {},
             kwargs |-> "none", avail |-> FALSE, made |-> NoStrategy,
             found |-> <<>>, store |-> <<>>, listed |-> <<>>,
             max_age |-> 0, closes |-> 0, unregistered |-> <<>>]

\* a thread that is not inside DCCServer.start: made is whether its call
\* created a server, registered whether it registered the service, overlap
\* whether the other thread's call was under way during its call
IdleStarter == [pc |-> "idle", made |-> FALSE, registered |-> FALSE,
                ret |-> "none", overlap |-> FALSE]

\* DCCServer.__init__: no server object, not running, no registry file;
\* file is whether the registry file of this process has been written,
\* since the clock reading at which start() last registered the service, lock
\* the thread that holds self.lock (0: free), start where each of the two
\* threads that call start() stands
NewServer == [server |-> "none", running |-> FALSE, registry_file |-> "None",
              file |-> FALSE, since |-> 0, lock |-> 0,
              start |-> [t \in {1, 2} |-> IdleStarter]]

\* the processes that register in the one registry file
Writers == {1, 2}

\* a process that is not inside register_service; loaded is the store its
\* last _load_registry read, info and at what it registers and when
IdleWriter == [pc |-> "idle", info |-> NoInfo, loaded |-> <<>>, at |-> 0]

\* the threads that call get_client on the one pool
Callers == {1, 2}

\* a thread that is not inside get_client
IdleCaller == [pc |-> "idle", key |-> <<>>, ret |-> 0, built |-> FALSE,
               overlap |-> FALSE]

\* the thread that runs close_all_connections or cleanup_idle_connections,
\* when it is in neither: keys is the snapshot or to_remove, closed the
\* handles it called disconnect() or close() on, dropped the handles whose
\* entries it took out of the pool
IdleSweeper == [pc |-> "idle", keys |-> {}, closed |-> {}, dropped |-> {},
                err |-> "none"]

IdleThreads == [get |-> [t \in Callers |-> IdleCaller], sweep |-> IdleSweeper]

Init ==
    /\ now = 0
    /\ pool = <<>>
    /\ lastCleanup = 0
    /\ clients = <<>>
    /\ clientReg = <<>>
    /\ regFile = <<>>
    /\ services = <<>>
    /\ lastOp = IdleOp
    /\ fileKind = "object"
    /\ backups = {}
    /\ strategies = {}
    /\ instances = NoInstances
    /\ lastCall = IdleCall
    /\ strategyOf = <<>>
    /\ factory = <<>>
    /\ writers = [w \in Writers |-> IdleWriter]
    /\ threads = IdleThreads
    /\ dccServer = NewServer
    /\ utilsCache = [loaded |-> FALSE, registry |-> <<>>, gone |-> {}]

(***************************************************************************)
(* The environment: the clock, the servers, the callers' registrations.    *)
(***************************************************************************)
Tick ==
    /\ now < MaxTime
    /\ now' = now + 1
    /\ lastOp' = IdleOp
    /\ UNCHANGED <<pool, lastCleanup, clients, clientReg, regFile, services, registryVars, serverVars>>

\* the peer closes the connection of a handle: connection.closed becomes True
ConnectionLost(c) ==
    /\ c \in DOMAIN clients
    /\ clients[c].connected
    /\ clients' = [clients EXCEPT ![c].connected = FALSE]
    /\ lastOp' = IdleOp
    /\ UNCHANGED <<now, pool, lastCleanup, clientReg, regFile, services, registryVars, serverVars>>

\* ClientRegistry.register_client_class, for a category that has no class yet
RegisterClientClass(name, kind) ==
    /\ Lower(name) \notin DOMAIN clientReg
    /\ clientReg' = Put(clientReg, Lower(name), kind)
    /\ lastOp' = IdleOp
    /\ UNCHANGED <<now, pool, lastCleanup, clients, regFile, services, registryVars, serverVars>>

\* FileDiscoveryStrategy.register_service, run by a server process
FileRegister(dcc, addr) ==
    /\ regFile' = Put(regFile, dcc, Entry(Service(dcc, dcc, addr.host, addr.port, NoMeta), now))
    /\ regFile' # regFile
    /\ lastOp' = IdleOp
    /\ UNCHANGED <<now, pool, lastCleanup, clients, clientReg, services, registryVars, serverVars>>

\* FileDiscoveryStrategy.unregister_service, run by a server process
FileUnregister(dcc) ==
    /\ dcc \in DOMAIN regFile
    /\ regFile' = Remove(regFile, dcc)
    /\ lastOp' = IdleOp
    /\ UNCHANGED <<now, pool, lastCleanup, clients, clientReg, services, registryVars, serverVars>>

(***************************************************************************)
(* ConnectionPool.get_client on pool p0 and handles cl0; base carries what *)
(* the caller of this step already recorded in lastOp.  The inputs chosen  *)
(* inside are what ZeroConf reports, whether the liveness probe is         *)
(* answered, the auto_connect argument (read by the constructor only) and  *)
(* whether the address accepts a connection.                               *)
(***************************************************************************)
ZeroConfInputs(needDisc, useZc) == IF needDisc /\ useZc THEN ZeroConfResults ELSE {NoAddr}

\* the identity of a newly constructed client object
FreshId(p) == CHOOSE i \in ClientIds : i \notin {p[k].client : k \in DOMAIN p} /\
                 \A j \in ClientIds : j \notin {p[k].client : k \in DOMAIN p} => i <= j

\* a reuse that leaves the timestamp as it was
Refreshed_Stale(entry, t) == entry

\* self.pool[key] = (client, time.time()) on reuse
Refreshed(entry, t) == [entry EXCEPT !.ts = t]

\* the pool key of a request
PoolKey(name, host, port) == <<Lower(name), host, port>>

GetClientFrom(p0, cl0, base, name, host, port, useZc) ==
    LET needDisc == host = NoHost \/ port = NoPort
    IN  \E zc \in ZeroConfInputs(needDisc, useZc) :
        \E disc \in {IF needDisc
                     THEN DiscoverService(services, regFile, name, useZc, zc, now)
                     ELSE NoDiscovery(services)} :
        \E key \in {PoolKey(name, ResolveHost(disc.host, host),
                             ResolvePort(disc.port, port))} :
        \E op0 \in {[base EXCEPT !.needDisc = needDisc, !.zcTried = disc.zcTried,
                                  !.fileTried = disc.fileTried,
                                  !.found = [host |-> disc.host, port |-> disc.port]]} :
        LET cls == GetClientClass(clientReg, name)
            inPool == key \in DOMAIN p0
            old == IF inPool THEN p0[key].client ELSE 0
            oldConn == inPool /\ IsConnected(cl0[old])
            p1 == IF inPool THEN Remove(p0, key) ELSE p0
            cl1 == IF inPool THEN Remove(cl0, old) ELSE cl0
            id == FreshId(p0)
        IN  /\ services' = disc.cache
            /\ strategies' = IF disc.fileTried THEN strategies \cup {"file"} ELSE strategies
            /\ strategyOf' = IF disc.fileTried /\ "file" \notin strategies
                             THEN Put(strategyOf, "file", CallerBuilt("file"))
                             ELSE strategyOf
            /\ backups' = IF disc.fileTried
                           THEN BackupsAfterLoad(fileKind, backups, now) ELSE backups
            /\ IF key[2] = NoHost \/ key[3] = NoPort
               THEN \* raise ValueError("Could not discover ... service")
                    /\ pool' = p0
                    /\ clients' = cl0
                    /\ lastOp' = [op0 EXCEPT !.err = "NotFound"]
               ELSE IF cls = NoClass
               THEN \* get_client_class raises ValueError
                    /\ pool' = p0
                    /\ clients' = cl0
                    /\ lastOp' = [op0 EXCEPT !.err = "NoClientClass", !.key = key]
               ELSE \E pingOk \in (IF oldConn THEN BOOLEAN ELSE {FALSE}) :
                    \E op1 \in {[op0 EXCEPT !.key = key, !.pooled = old,
                                            !.wasConnected = oldConn,
                                            !.pingOk = pingOk]} :
                    IF inPool /\ IsClientValid(cl0[old], pingOk)
                    THEN \* reuse: refresh the timestamp, return the pooled handle
                         /\ pool' = Put(p0, key, Refreshed(p0[key], now))
                         /\ clients' = cl0
                         /\ lastOp' = [op1 EXCEPT !.ret = old, !.valid = TRUE]
                    ELSE \* drop the invalid entry, if any, and construct a client
                         \E auto \in BOOLEAN :
                         \E reach \in (IF auto THEN BOOLEAN ELSE {FALSE}) :
                         IF ConstructorRaises(cls, auto, reach)
                         THEN \* nothing catches what the constructor raises
                              /\ pool' = p1
                              /\ clients' = cl1
                              /\ lastOp' = [op1 EXCEPT !.auto = auto,
                                                       !.err = "ConnectionError"]
                         ELSE /\ clients' = Put(cl1, id, NewClient(cls, key, auto, reach))
                              /\ pool' = Put(p1, key, [client |-> id, ts |-> now])
                              /\ lastOp' = [op1 EXCEPT !.ret = id, !.built = TRUE,
                                                       !.auto = auto, !.reach = reach]

\* ConnectionPool.get_client, the method: it runs no cleanup
GetClient(name, host, port, useZc) ==
    /\ GetClientFrom(pool, clients, [IdleOp EXCEPT !.op = "get_client", !.name = name],
                     name, host, port, useZc)
    /\ UNCHANGED <<now, lastCleanup, clientReg, regFile, fileKind, instances, lastCall,
                   factory, stepVars, serverVars>>

\* whether the module-level get_client runs the idle cleanup first
CleanupDue(t, lc) == t - lc > CleanupInterval

\* get_client, the module-level function on the global pool
GlobalGetClient(name, host, port, useZc) ==
    LET due == CleanupDue(now, lastCleanup)
        p0 == IF due THEN CleanupPool(pool, now) ELSE pool
        cl0 == IF due THEN CleanupClients(pool, clients, now) ELSE clients
        base == [IdleOp EXCEPT !.op = "global_get_client",
                               !.cleaned = IF due THEN IdleKeys(pool, now) ELSE {},
                               !.evicted = IF due THEN IdleClients(pool, now) ELSE {},
                               !.closes = IF due THEN Once(ClosedOnEvict(pool, clients, now))
                                          ELSE Zeros]
    IN  /\ GetClientFrom(p0, cl0, base, name, host, port, useZc)
        /\ lastCleanup' = IF due THEN now ELSE lastCleanup
        /\ UNCHANGED <<now, clientReg, regFile, fileKind, instances, lastCall,
                       factory, stepVars, serverVars>>

\* ConnectionPool.cleanup_idle_connections
CleanupIdleConnections ==
    /\ pool' = CleanupPool(pool, now)
    /\ clients' = CleanupClients(pool, clients, now)
    /\ lastCleanup' = now
    /\ lastOp' = [IdleOp EXCEPT !.op = "cleanup", !.cleaned = IdleKeys(pool, now),
                                !.evicted = IdleClients(pool, now),
                                !.closes = Once(ClosedOnEvict(pool, clients, now))]
    /\ UNCHANGED <<now, clientReg, regFile, services, registryVars, serverVars>>

(***************************************************************************)
(* ConnectionPool.close_client and close_all_connections.                  *)
(***************************************************************************)
\* disconnect() of the standard client never raises; a custom one may
DisconnectRaises(c, raises) == c.kind = "CustomClient" /\ raises

\* a close_client that deletes the entry whatever disconnect() did
KeepsEntry_Never(c, raises) == FALSE

\* close_client keeps the entry exactly when disconnect() raised
KeepsEntry(c, raises) == DisconnectRaises(c, raises)

CloseClient(name, host, port) ==
    LET key == PoolKey(name, host, port)
        inPool == key \in DOMAIN pool
        c == IF inPool THEN pool[key].client ELSE 0
        op0 == [IdleOp EXCEPT !.op = "close_client", !.key = key, !.pooled = c,
                              !.name = name]
    IN  /\ IF ~inPool
           THEN /\ UNCHANGED <<pool, clients, serverVars>>
                /\ lastOp' = op0
           ELSE \E raises \in (IF clients[c].kind = "CustomClient" THEN BOOLEAN ELSE {FALSE}) :
                LET keep == KeepsEntry(clients[c], raises)
                IN  /\ pool' = IF keep THEN pool ELSE Remove(pool, key)
                    /\ clients' = IF keep THEN clients ELSE Remove(clients, c)
                    /\ lastOp' = [op0 EXCEPT !.disconnects = Once({c}), !.ok = ~keep,
                                             !.raised = IF DisconnectRaises(clients[c], raises)
                                                        THEN {c} ELSE {}]
        /\ UNCHANGED <<now, lastCleanup, clientReg, regFile, services, registryVars, serverVars>>

Pooled(p) == {p[k].client : k \in DOMAIN p}

\* the handles close_all_connections calls disconnect() on
DisconnectedOnCloseAll(p) == Pooled(p)

\* a close_all_connections that keeps the entries whose disconnect() raised
PoolAfterCloseAll_KeepRaising(p, raising) ==
    [k \in {x \in DOMAIN p : p[x].client \in raising} |-> p[k]]

\* the pool after close_all_connections, whatever disconnect() raised:
\* self.pool.clear()
PoolAfterCloseAll(p, raising) == [k \in {} |-> p[k]]

CloseAllConnections(raising) ==
    /\ pool' = PoolAfterCloseAll(pool, raising)
    /\ clients' = [c \in Pooled(pool') |-> clients[c]]
    /\ lastOp' = [IdleOp EXCEPT !.op = "close_all", !.raised = raising,
                                !.cleaned = DOMAIN pool, !.evicted = Pooled(pool),
                                !.disconnects = Once(DisconnectedOnCloseAll(pool))]
    /\ UNCHANGED <<now, lastCleanup, clientReg, regFile, services, registryVars, serverVars>>

(***************************************************************************)
(* FileDiscoveryStrategy (discovery/file_strategy.py).  Every operation    *)
(* and the constructor reload the file into self._services first, so what  *)
(* an instance held in memory before a call has no effect on the call: the *)
(* store a call leaves is recorded in lastCall, and an instance is its     *)
(* number.                                                                 *)
(***************************************************************************)
Categories == {"maya", "houdini"}

Instances == {1, 2}

\* the services the servers of the model register
Infos ==
    {Service("maya", "maya-1", "h1", 1, NoMeta),
     Service("maya", "maya-2", "h1", 2, {<<"version", "2023">>}),
     Service("houdini", "hou", "h1", 1, {<<"tags", "tuple">>})}

\* metadata that json.dump and json.load give back unchanged
IsJsonNative(metadata) == JsonRoundTrip(metadata) = metadata

\* how the write of _save_registry ends: done, open() refused, or cut short
\* after the file was truncated
IoOutcomes == {"ok", "denied", "partial"}

\* the file after _save_registry(store): an error is logged, not raised
SavedKind(kind, io) ==
    IF io = "ok" THEN "object" ELSE IF io = "denied" THEN kind ELSE "text"

SavedDoc(doc, store, io) ==
    IF io = "ok" THEN store ELSE IF io = "denied" THEN doc ELSE <<>>

\* a register that leaves an entry of the category alone
Stored_KeepsFirst(store, info, t) ==
    IF info.dcc_type \in DOMAIN store THEN store
    ELSE Put(store, info.dcc_type, Entry(info, t))

\* self._services[service_info.dcc_type] = service_data
Stored(store, info, t) == Put(store, info.dcc_type, Entry(info, t))

\* an unregister that takes a missing category for removed
UnregisterFinds_Always(store, info) == TRUE

\* unregister_service: service_info.dcc_type in self._services
UnregisterFinds(store, info) == info.dcc_type \in DOMAIN store

\* the constructor: FileDiscoveryStrategy(registry_path) loads the file
NewStrategy(inst) ==
    /\ backups' = BackupsAfterLoad(fileKind, backups, now)
    /\ lastCall' = [IdleCall EXCEPT !.op = "init", !.inst = inst, !.at = now,
                                   !.store = LoadRegistry(fileKind, regFile)]
    /\ UNCHANGED <<now, regFile, fileKind, services, strategies, instances, poolVars, factoryVars, stepVars, serverVars>>

\* FileDiscoveryStrategy.register_service: True whatever the save did
StrategyRegister(inst, info, io) ==
    LET loaded == LoadRegistry(fileKind, regFile)
        store == Stored(loaded, info, now)
    IN  /\ backups' = BackupsAfterLoad(fileKind, backups, now)
        /\ regFile' = SavedDoc(regFile, store, io)
        /\ fileKind' = SavedKind(fileKind, io)
        /\ lastCall' = [IdleCall EXCEPT !.op = "register", !.inst = inst, !.at = now,
                                       !.info = info, !.io = io, !.ret = TRUE,
                                       !.had = info.dcc_type \in DOMAIN loaded,
                                       !.store = store]
        /\ UNCHANGED <<now, services, strategies, instances, poolVars, factoryVars, stepVars, serverVars>>

\* FileDiscoveryStrategy.unregister_service
StrategyUnregister(inst, info, io) ==
    LET loaded == LoadRegistry(fileKind, regFile)
        finds == UnregisterFinds(loaded, info)
        store == IF finds THEN Remove(loaded, info.dcc_type) ELSE loaded
        call == [IdleCall EXCEPT !.op = "unregister", !.inst = inst, !.at = now,
                                !.info = info, !.had = info.dcc_type \in DOMAIN loaded,
                                !.store = store]
    IN  /\ backups' = BackupsAfterLoad(fileKind, backups, now)
        /\ IF finds
           THEN /\ regFile' = SavedDoc(regFile, store, io)
                /\ fileKind' = SavedKind(fileKind, io)
                /\ lastCall' = [call EXCEPT !.io = io, !.ret = TRUE]
           ELSE /\ io = "ok"
                /\ UNCHANGED <<regFile, fileKind>>
                /\ lastCall' = call
        /\ UNCHANGED <<now, services, strategies, instances, poolVars, factoryVars, stepVars, serverVars>>

\* FileDiscoveryStrategy.discover_services
StrategyDiscover(inst, type) ==
    LET loaded == LoadRegistry(fileKind, regFile)
    IN  /\ backups' = BackupsAfterLoad(fileKind, backups, now)
        /\ lastCall' = [IdleCall EXCEPT !.op = "discover", !.inst = inst, !.at = now,
                                       !.type = type, !.store = loaded,
                                       !.found = FileDiscover(loaded, type, now)]
        /\ UNCHANGED <<now, regFile, fileKind, services, strategies, instances, poolVars, factoryVars, stepVars, serverVars>>

\* utils.discovery.register_service on the same file, for a category the
\* file does not have: the category's value becomes a list of one service
UtilsRegisterService(dcc, addr) ==
    /\ fileKind = "object"
    /\ dcc \notin DOMAIN regFile
    /\ regFile' = Put(regFile, dcc, ListEntry(dcc, addr, now))
    /\ lastCall' = IdleCall
    /\ UNCHANGED <<now, fileKind, backups, services, strategies, instances, poolVars, factoryVars, stepVars, serverVars>>

\* something else overwrites the registry file with what is no JSON object
CorruptFile(kind) ==
    /\ kind # "object"
    /\ fileKind' = kind
    /\ regFile' = <<>>
    /\ regFile' # regFile \/ fileKind' # fileKind
    /\ lastCall' = IdleCall
    /\ UNCHANGED <<now, backups, services, strategies, instances, poolVars, factoryVars, stepVars, serverVars>>

NextFile ==
    \/ Tick
    \/ \E inst \in Instances : NewStrategy(inst)
    \/ \E inst \in Instances, info \in Infos, io \in IoOutcomes :
          StrategyRegister(inst, info, io)
    \/ \E inst \in Instances, info \in Infos, io \in IoOutcomes :
          StrategyUnregister(inst, info, io)
    \/ \E inst \in Instances, type \in Categories \cup {NoType} :
          StrategyDiscover(inst, type)
    \/ \E dcc \in Categories : UtilsRegisterService(dcc, [host |-> "h1", port |-> 1])
    \/ \E kind \in FileKinds : CorruptFile(kind)

SpecFile == Init /\ [][NextFile]_vars

(***************************************************************************)
(* ServiceRegistry (discovery/registry.py), a singleton.  Every strategy   *)
(* registered in the model is a FileDiscoveryStrategy on the one registry  *)
(* file, as the pool and the tests register them.                          *)
(***************************************************************************)
\* the services registered through the registry: two of one category with
\* different names and ports, one whose category differs in case only, and
\* the first one again after it moved to another port
RegistryInfos ==
    {Service("maya", "maya-1", "h1", 1, NoMeta),
     Service("maya", "maya-2", "h1", 2, {<<"version", "2023">>}),
     Service("Maya", "maya-3", "h1", 1, {<<"name", "other">>}),
     Service("maya", "maya-1", "h1", 2, NoMeta)}

\* ServiceRegistry.get_service(dcc_type, name): the first cached service of
\* the type and the name, or None
GetServiceNamed(cache, type, name) ==
    LET hits == SelectSeq(cache, LAMBDA c : c.dcc_type = type /\ c.name = name)
    IN  IF hits = <<>> THEN NoInfo ELSE Head(hits)

\* a lookup that takes any name for a registered strategy
HasStrategy_Default(strats, name) == TRUE

\* get_strategy(strategy_name) is not None
HasStrategy(strats, name) == name \in strats

\* del self._services[key] when the key is cached
CacheRemove(cache, s) ==
    SelectSeq(cache, LAMBDA c : ServiceKey(c) # ServiceKey(s))

InstanceKeys == {"name", "host", "port", "dcc_type"}

\* an instance_info whose metadata loop assigns every key of the metadata
InstanceInfo_Overwritten(s) ==
    LET over(key, value) ==
            IF \E kv \in s.metadata : kv[1] = key
            THEN (CHOOSE kv \in s.metadata : kv[1] = key)[2]
            ELSE value
    IN  [category |-> Lower(s.dcc_type), name |-> over("name", s.name),
         host |-> over("host", s.host), port |-> over("port", s.port),
         dcc_type |-> over("dcc_type", s.dcc_type),
         extra |-> {kv \in s.metadata : kv[1] \notin InstanceKeys}]

\* instance_info of get_available_dcc_instances, with the key of result it
\* is listed under: metadata keys do not replace the four fixed keys
InstanceInfo(s) ==
    [category |-> Lower(s.dcc_type), name |-> s.name, host |-> s.host,
     port |-> s.port, dcc_type |-> s.dcc_type,
     extra |-> {kv \in s.metadata : kv[1] \notin InstanceKeys}]

\* a loop that appends every discovered service
AddInstances_NoDedupe(result, found) ==
    result \o [i \in DOMAIN found |-> InstanceInfo(found[i])]

\* the inner loop: an instance is appended unless its category's list has
\* one of the same host and port
RECURSIVE AddInstances(_, _)
AddInstances(result, found) ==
    IF found = <<>> THEN result
    ELSE LET inst == InstanceInfo(Head(found))
             exists == \E i \in DOMAIN result :
                          /\ result[i].category = inst.category
                          /\ result[i].host = inst.host
                          /\ result[i].port = inst.port
         IN  AddInstances(IF exists THEN result ELSE Append(result, inst), Tail(found))

\* the orders list_strategies() can have: the order of registration
StrategyOrders(strats) ==
    {order \in [1 .. Cardinality(strats) -> strats] :
        \A i, j \in DOMAIN order : order[i] = order[j] => i = j}

\* a loop that gives up with what it has when a strategy raises
InstancesOf_GiveUp(order, raising, result, found) ==
    IF order = <<>> \/ \E i \in DOMAIN order : order[i] \in raising THEN result
    ELSE AddInstances(result, found)

\* the outer loop over list_strategies(): each strategy discovers from the
\* same file; a strategy whose discover_services raises is logged and
\* skipped
RECURSIVE InstancesOf(_, _, _, _)
InstancesOf(order, raising, result, found) ==
    IF order = <<>> THEN result
    ELSE InstancesOf(Tail(order), raising,
                     IF Head(order) \in raising THEN result
                     ELSE AddInstances(result, found),
                     found)

\* ServiceRegistry.register_strategy with a new FileDiscoveryStrategy
RegisterStrategy(name) ==
    /\ strategies' = strategies \cup {name}
    /\ strategyOf' = Put(strategyOf, name, CallerBuilt("file"))
    /\ backups' = BackupsAfterLoad(fileKind, backups, now)
    /\ lastCall' = [IdleCall EXCEPT !.op = "register_strategy", !.at = now,
                                   !.strategy = name]
    /\ UNCHANGED <<now, regFile, fileKind, services, instances, poolVars, factory, stepVars, serverVars>>

\* the call raised ValueError("Strategy '...' not found")
StrategyNotFound(op, name) ==
    /\ lastCall' = [IdleCall EXCEPT !.op = op, !.at = now, !.strategy = name,
                                   !.err = "ValueError"]
    /\ UNCHANGED <<now, regFile, fileKind, backups, services, strategies,
                   instances, poolVars, factoryVars, stepVars, serverVars>>

\* ServiceRegistry.discover_services(strategy_name, dcc_type)
RegistryDiscover(name, type) ==
    IF ~HasStrategy(strategies, name)
    THEN StrategyNotFound("registry_discover", name)
    ELSE \E found \in {FileDiscover(LoadRegistry(fileKind, regFile), type, now)} :
            /\ services' = CacheUpdate(services, found)
            /\ backups' = BackupsAfterLoad(fileKind, backups, now)
            /\ lastCall' = [IdleCall EXCEPT !.op = "registry_discover", !.at = now,
                                           !.strategy = name, !.type = type,
                                           !.found = found]
            /\ UNCHANGED <<now, regFile, fileKind, strategies, instances, poolVars, factoryVars, stepVars, serverVars>>

\* ServiceRegistry.register_service(strategy_name, service_info)
RegistryRegister(name, info) ==
    IF ~HasStrategy(strategies, name)
    THEN StrategyNotFound("registry_register", name)
    ELSE LET loaded == LoadRegistry(fileKind, regFile)
         IN  /\ regFile' = Stored(loaded, info, now)
             /\ fileKind' = "object"
             /\ backups' = BackupsAfterLoad(fileKind, backups, now)
             /\ services' = CachePut(services, info)
             /\ lastCall' = [IdleCall EXCEPT !.op = "registry_register", !.at = now,
                                            !.strategy = name, !.info = info,
                                            !.had = info.dcc_type \in DOMAIN loaded,
                                            !.ret = TRUE]
             /\ UNCHANGED <<now, strategies, instances, poolVars, factoryVars, stepVars, serverVars>>

\* ServiceRegistry.unregister_service(strategy_name, service_info)
RegistryUnregister(name, info) ==
    IF ~HasStrategy(strategies, name)
    THEN StrategyNotFound("registry_unregister", name)
    ELSE LET loaded == LoadRegistry(fileKind, regFile)
             finds == UnregisterFinds(loaded, info)
         IN  /\ regFile' = IF finds THEN Remove(loaded, info.dcc_type) ELSE regFile
             /\ fileKind' = IF finds THEN "object" ELSE fileKind
             /\ backups' = BackupsAfterLoad(fileKind, backups, now)
             /\ services' = IF finds THEN CacheRemove(services, info) ELSE services
             /\ lastCall' = [IdleCall EXCEPT !.op = "registry_unregister", !.at = now,
                                            !.strategy = name, !.info = info,
                                            !.had = info.dcc_type \in DOMAIN loaded,
                                            !.ret = finds]
             /\ UNCHANGED <<now, strategies, instances, poolVars, factoryVars, stepVars, serverVars>>

\* a call that returns the cached result whenever there is one
UseCached_Always(inst, refresh) == inst.cached

\* hasattr(self, '_cached_instances') and not refresh
UseCached(inst, refresh) == inst.cached /\ ~refresh

\* ServiceRegistry.get_available_dcc_instances(refresh), with list_strategies()
\* in the given order and the strategies of raising failing to discover
GetAvailableInstances(refresh, order, raising) ==
    IF UseCached(instances, refresh)
    THEN /\ lastCall' = [IdleCall EXCEPT !.op = "instances", !.at = now,
                                        !.refresh = refresh,
                                        !.listed = instances.listed]
         /\ UNCHANGED <<now, regFile, fileKind, backups, services, strategies,
                        instances, poolVars, factoryVars, stepVars, serverVars>>
    ELSE \E found \in {FileDiscover(LoadRegistry(fileKind, regFile), NoType, now)} :
         \E listed \in {InstancesOf(order, raising, <<>>, found)} :
            /\ services' = IF strategies \subseteq raising THEN services
                           ELSE CacheUpdate(services, found)
            /\ backups' = IF strategies \subseteq raising THEN backups
                          ELSE BackupsAfterLoad(fileKind, backups, now)
            /\ instances' = [cached |-> TRUE, listed |-> listed]
            /\ lastCall' = [IdleCall EXCEPT !.op = "instances", !.at = now,
                                           !.refresh = refresh, !.listed = listed,
                                           !.order = order, !.raising = raising]
            /\ UNCHANGED <<now, regFile, fileKind, strategies, poolVars, factoryVars, stepVars, serverVars>>

NextRegistry ==
    \/ \E name \in StrategyNames : RegisterStrategy(name)
    \/ \E name \in StrategyNames, type \in {"maya", NoType} : RegistryDiscover(name, type)
    \/ \E name \in StrategyNames, info \in RegistryInfos : RegistryRegister(name, info)
    \/ \E name \in StrategyNames, info \in RegistryInfos : RegistryUnregister(name, info)
    \/ \E refresh \in BOOLEAN, order \in StrategyOrders(strategies),
          raising \in SUBSET strategies :
          GetAvailableInstances(refresh, order, raising)

SpecRegistry == Init /\ [][NextRegistry]_vars

(***************************************************************************)
(* ServiceRegistry.ensure_strategy and the ServiceDiscoveryFactory it      *)
(* asks.  The factory is modelled from its specification: always able to   *)
(* build the file kind, able to build the zeroconf kind when the zeroconf  *)
(* library is there, and keeping the first instance it built of a kind.    *)
(***************************************************************************)
\* ServiceDiscoveryFactory.get_strategy(kind, **kwargs): the instance, or None
FactoryGet(fac, kind, kwargs, avail) ==
    IF kind \in DOMAIN fac THEN fac[kind]
    ELSE IF kind = "file" \/ (kind = "zeroconf" /\ avail)
         THEN StrategyInstance("factory", kind, kwargs)
         ELSE NoStrategy

\* an ensure_strategy that asks the factory whatever is registered
EnsureFinds_Never(strats, kind) == FALSE

\* strategy = self.get_strategy(strategy_type); if not strategy
EnsureFinds(strats, kind) == kind \in DOMAIN strats

\* ServiceRegistry.ensure_strategy(strategy_type, **kwargs)
EnsureStrategy(kind, kwargs, avail) ==
    LET call == [IdleCall EXCEPT !.op = "ensure", !.at = now, !.strategy = kind,
                                !.kwargs = kwargs, !.avail = avail]
        got == FactoryGet(factory, kind, kwargs, avail)
    IN  /\ IF EnsureFinds(strategyOf, kind)
           THEN /\ lastCall' = [call EXCEPT !.made = strategyOf[kind]]
                /\ UNCHANGED <<strategies, strategyOf, factory, backups, serverVars>>
           ELSE IF got = NoStrategy
           THEN /\ lastCall' = [call EXCEPT !.err = "ValueError"]
                /\ UNCHANGED <<strategies, strategyOf, factory, backups, serverVars>>
           ELSE /\ factory' = Put(factory, kind, got)
                /\ strategies' = strategies \cup {kind}
                /\ strategyOf' = Put(strategyOf, kind, got)
                /\ backups' = IF kind = "file" /\ kind \notin DOMAIN factory
                              THEN BackupsAfterLoad(fileKind, backups, now)
                              ELSE backups
                /\ lastCall' = [call EXCEPT !.made = got]
        /\ UNCHANGED <<now, regFile, fileKind, services, instances, poolVars, stepVars, serverVars>>

\* ServiceRegistry._reset_instance() and the next ServiceRegistry(): the
\* registry starts empty, the factory keeps what it built
ResetRegistry ==
    /\ strategies' = {}
    /\ strategyOf' = <<>>
    /\ services' = <<>>
    /\ instances' = NoInstances
    /\ lastCall' = IdleCall
    /\ UNCHANGED <<now, regFile, fileKind, backups, factory, poolVars, stepVars, serverVars>>

NextEnsure ==
    \/ \E name \in StrategyNames : RegisterStrategy(name)
    \/ \E kind \in StrategyKinds, kwargs \in Kwargs, avail \in BOOLEAN :
          EnsureStrategy(kind, kwargs, avail)
    \/ ResetRegistry

SpecEnsure == Init /\ [][NextEnsure]_vars

(***************************************************************************)
(* server.discovery.unregister_dcc_service(registry_path).  The registry   *)
(* file of the model is the file at the default path (kwargs "default");   *)
(* "custom" is another path, and other is what a discover_services finds   *)
(* in the file there.                                                      *)
(***************************************************************************)
UnregisterDccService(path, other) ==
    LET used == IF EnsureFinds(strategyOf, "file")
                THEN strategyOf["file"]
                ELSE FactoryGet(factory, "file", path, FALSE)
        found == IF used.kwargs = "default"
                 THEN FileDiscover(LoadRegistry(fileKind, regFile), NoType, now)
                 ELSE other
        types == {found[i].dcc_type : i \in DOMAIN found}
        keys == {ServiceKey(found[i]) : i \in DOMAIN found}
    IN  /\ strategies' = strategies \cup {"file"}
        /\ strategyOf' = Put(strategyOf, "file", used)
        /\ factory' = IF EnsureFinds(strategyOf, "file") THEN factory
                      ELSE Put(factory, "file", used)
        /\ services' = SelectSeq(services, LAMBDA c : ServiceKey(c) \notin keys)
        /\ IF used.kwargs = "default"
           THEN /\ regFile' = [c \in DOMAIN regFile \ types |-> regFile[c]]
                /\ backups' = BackupsAfterLoad(fileKind, backups, now)
           ELSE UNCHANGED <<regFile, backups>>
        /\ lastCall' = [IdleCall EXCEPT !.op = "unregister_dcc", !.at = now,
                                       !.kwargs = path, !.made = used,
                                       !.listed = other, !.found = found,
                                       !.ret = found # <<>>]
        /\ UNCHANGED <<now, fileKind, instances, poolVars, stepVars, serverVars>>

NextUnregister ==
    \/ \E kwargs \in Kwargs : EnsureStrategy("file", kwargs, FALSE)
    \/ \E info \in IF EnsureFinds(strategyOf, "file") /\ strategyOf["file"].kwargs = "custom"
                    THEN {} ELSE RegistryInfos :
          RegistryRegister("file", info)
    \/ \E path \in Kwargs, other \in {<<>>, <<Service("houdini", "hou", "h1", 1, NoMeta)>>} :
          UnregisterDccService(path, other)
    \/ ResetRegistry

SpecUnregister == Init /\ [][NextUnregister]_vars

(***************************************************************************)
(* Two processes in FileDiscoveryStrategy.register_service on the same     *)
(* file.  The file is read by _load_registry and written by _save_registry *)
(* with nothing that keeps another process out in between.                 *)
(***************************************************************************)
\* a save that starts from what the file holds at the time of the write
SaveBase_Current(loaded, current) == current

\* what _save_registry writes is self._services as _load_registry left it
\* at the start of the call, whatever the file holds by now
SaveBase(loaded, current) == loaded

\* register_service up to the end of self._load_registry()
WriterLoad(w, info) ==
    /\ writers[w].pc # "loaded"
    /\ writers' = [writers EXCEPT ![w] = [pc |-> "loaded", info |-> info,
                                         loaded |-> LoadRegistry(fileKind, regFile),
                                         at |-> now]]
    /\ backups' = BackupsAfterLoad(fileKind, backups, now)
    /\ lastCall' = IdleCall
    /\ UNCHANGED <<now, regFile, fileKind, services, strategies, instances,
                   poolVars, factoryVars, threads, serverVars>>

\* register_service from service_data to the return
WriterSave(w) ==
    /\ writers[w].pc = "loaded"
    /\ \E store \in {Stored(SaveBase(writers[w].loaded, regFile),
                            writers[w].info, writers[w].at)} :
          /\ regFile' = store
          /\ fileKind' = "object"
          /\ lastCall' = [IdleCall EXCEPT !.op = "register", !.inst = w, !.at = now,
                                         !.info = writers[w].info, !.ret = TRUE,
                                         !.had = writers[w].info.dcc_type
                                                 \in DOMAIN writers[w].loaded,
                                         !.store = store]
    /\ writers' = [writers EXCEPT ![w].pc = "saved"]
    /\ UNCHANGED <<now, backups, services, strategies, instances,
                   poolVars, factoryVars, threads, serverVars>>

NextRace ==
    \/ \E w \in Writers, info \in Infos : WriterLoad(w, info)
    \/ \E w \in Writers : WriterSave(w)
    \/ \E inst \in Instances, info \in Infos : StrategyUnregister(inst, info, "ok")

SpecRace == Init /\ [][NextRace]_vars

(***************************************************************************)
(* Threads on one ConnectionPool.  Nothing in pool.py takes a lock, and    *)
(* the constructor of a client, disconnect() and close() talk to the       *)
(* network, so another thread can run between the lookup of a key and the  *)
(* insertion, and between the loop of a sweep and its removals.  Handles   *)
(* stay in clients after they left the pool: they are still referred to by *)
(* the caller that got them.                                               *)
(***************************************************************************)
MaxHandles == 3

\* the request of the threads: all of them ask for the same server
ThreadInputs == {<<"maya", "h1", 1>>}

\* get_client up to the construction of the client: the handle of a valid
\* entry is returned, an invalid entry is deleted
CallerLookup(t, name, host, port) ==
    LET key == PoolKey(name, host, port)
        inPool == key \in DOMAIN pool
        old == IF inPool THEN pool[key].client ELSE 0
        overlap == \E u \in Callers \ {t} :
                      threads.get[u].pc = "missed" /\ threads.get[u].key = key
        call == [IdleCaller EXCEPT !.key = key, !.overlap = overlap]
    IN  /\ threads.get[t].pc # "missed"
        /\ GetClientClass(clientReg, name) # NoClass
        /\ IF inPool /\ IsClientValid(clients[old], TRUE)
           THEN /\ pool' = Put(pool, key, Refreshed(pool[key], now))
                /\ threads' = [threads EXCEPT
                                  !.get[t] = [call EXCEPT !.pc = "done", !.ret = old]]
           ELSE /\ pool' = IF inPool THEN Remove(pool, key) ELSE pool
                /\ threads' = [threads EXCEPT !.get[t] = [call EXCEPT !.pc = "missed"]]
        /\ lastOp' = IdleOp
        /\ UNCHANGED <<now, lastCleanup, clients, clientReg, regFile, services,
                       fileKind, backups, strategies, instances, lastCall,
                       factoryVars, writers, serverVars>>

\* get_client from the construction of the client, which connects, to the
\* return
CallerInsert(t) ==
    LET key == threads.get[t].key
        free == (1 .. MaxHandles) \ DOMAIN clients
    IN  /\ threads.get[t].pc = "missed"
        /\ free # {}
        /\ \E id \in {CHOOSE i \in free : \A j \in free : i <= j} :
              /\ clients' = Put(clients, id,
                                NewClient(clientReg[key[1]], key, TRUE, TRUE))
              /\ pool' = Put(pool, key, [client |-> id, ts |-> now])
              /\ threads' = [threads EXCEPT !.get[t].pc = "done", !.get[t].ret = id,
                                            !.get[t].built = TRUE]
        /\ lastOp' = IdleOp
        /\ UNCHANGED <<now, lastCleanup, clientReg, regFile, services,
                       fileKind, backups, strategies, instances, lastCall,
                       factoryVars, writers, serverVars>>

\* the handles of cs after disconnect() or close()
Disconnected(cl, cs) ==
    [c \in DOMAIN cl |-> IF c \in cs THEN [cl[c] EXCEPT !.connected = FALSE] ELSE cl[c]]

\* close_all_connections, the loop over list(self.pool.items())
CloseAllBegin ==
    /\ threads.sweep.pc \notin {"closing", "marked"}
    /\ pool # <<>>
    /\ clients' = Disconnected(clients, Pooled(pool))
    /\ threads' = [threads EXCEPT !.sweep = [IdleSweeper EXCEPT
                      !.pc = "closing", !.keys = DOMAIN pool, !.closed = Pooled(pool)]]
    /\ lastOp' = IdleOp
    /\ UNCHANGED <<now, pool, lastCleanup, clientReg, regFile, services,
                   fileKind, backups, strategies, instances, lastCall,
                   factoryVars, writers, serverVars>>

\* close_all_connections, self.pool.clear()
CloseAllClear ==
    /\ threads.sweep.pc = "closing"
    /\ pool' = <<>>
    /\ threads' = [threads EXCEPT !.sweep.pc = "cleared",
                                  !.sweep.dropped = Pooled(pool)]
    /\ lastOp' = IdleOp
    /\ UNCHANGED <<now, lastCleanup, clients, clientReg, regFile, services,
                   fileKind, backups, strategies, instances, lastCall,
                   factoryVars, writers, serverVars>>

\* cleanup_idle_connections, the loop that fills to_remove
CleanupMark ==
    /\ threads.sweep.pc \notin {"closing", "marked"}
    /\ IdleKeys(pool, now) # {}
    /\ threads' = [threads EXCEPT !.sweep = [IdleSweeper EXCEPT
                      !.pc = "marked", !.keys = IdleKeys(pool, now)]]
    /\ lastOp' = IdleOp
    /\ UNCHANGED <<now, pool, lastCleanup, clients, clientReg, regFile, services,
                   fileKind, backups, strategies, instances, lastCall,
                   factoryVars, writers, serverVars>>

\* cleanup_idle_connections, the loop over to_remove: self.pool[key] raises
\* KeyError for a key that is gone, after the keys before it were handled
CleanupRemove ==
    LET keys == threads.sweep.keys
    IN  /\ threads.sweep.pc = "marked"
        /\ \E done \in (IF keys \subseteq DOMAIN pool THEN {keys}
                        ELSE SUBSET (keys \cap DOMAIN pool)) :
           \E gone \in {{pool[k].client : k \in done}} :
              /\ clients' = Disconnected(clients, {c \in gone : HasClose(clients[c])})
              /\ pool' = [k \in (DOMAIN pool) \ done |-> pool[k]]
              /\ threads' = [threads EXCEPT
                                !.sweep.pc = "cleaned",
                                !.sweep.closed = {c \in gone : HasClose(clients[c])},
                                !.sweep.dropped = gone,
                                !.sweep.err = IF keys \subseteq DOMAIN pool
                                              THEN "none" ELSE "KeyError"]
              /\ lastCleanup' = IF keys \subseteq DOMAIN pool THEN now ELSE lastCleanup
        /\ lastOp' = IdleOp
        /\ UNCHANGED <<now, clientReg, regFile, services,
                       fileKind, backups, strategies, instances, lastCall,
                       factoryVars, writers, serverVars>>

NextThreads ==
    \/ Tick
    \/ RegisterClientClass("maya", "BaseDCCClient")
    \/ \E t \in Callers, i \in ThreadInputs : CallerLookup(t, i[1], i[2], i[3])
    \/ \E t \in Callers : CallerInsert(t)
    \/ \E i \in ThreadInputs : CloseClient(i[1], i[2], i[3])
    \/ CloseAllBegin
    \/ CloseAllClear
    \/ CleanupMark
    \/ CleanupRemove

SpecThreads == Init /\ [][NextThreads]_vars

(***************************************************************************)
(* The server object and the registry functions of utils.discovery.        *)
(***************************************************************************)
\* DCCServer.dcc_name of the one server object, and the path
\* register_service returns for the registry file of the process
ServerDcc == "maya"

ProcessFile == "service_registry_maya_pid.json"

\* the value a category holds once its services are removed: the empty list
NoServices(dcc) ==
    [shape |-> "empty", name |-> dcc, host |-> NoHost, port |-> NoPort,
     timestamp |-> 0, metadata |-> NoMeta]

\* DCCServer.is_running
IsRunning(srv) == srv.running /\ srv.server # "none"

\* utils.discovery.unregister_service(dcc_name) on the default registry
\* file: the document it leaves.  A loaded JSON object that has the name gets
\* the empty list under it; anything else is left as it is
UtilsUnregistered(kind, doc, dcc) ==
    IF kind = "object" /\ dcc \in DOMAIN doc
    THEN Put(doc, dcc, NoServices(dcc))
    ELSE doc

\* server.factory.unregister_dcc_service(registry_file): the document it
\* leaves in the default registry file.  For a path that exists it imports
\* _load_registry_file from dcc_mcp_rpyc.utils, which does not export it:
\* the ImportError is caught and nothing is unregistered.  A value without a
\* path separator is taken as the category name; anything else unregisters
\* "unknown_dcc"
FactoryUnregistered(registry_file, exists, kind, doc) ==
    IF registry_file = ProcessFile /\ exists
    THEN doc
    ELSE IF registry_file = ""
         THEN UtilsUnregistered(kind, doc, "")
         ELSE UtilsUnregistered(kind, doc, "unknown_dcc")

\* DCCServer.start(threaded): created is whether create_raw_threaded_server
\* returns a server, saved whether save_registry wrote the registry file of
\* the process.  A blocking start leaves running False
ServerStart(threaded, created, saved) ==
    LET call == [IdleCall EXCEPT !.op = "start", !.at = now]
    IN
    /\ IF IsRunning(dccServer)
       THEN /\ lastCall' = [call EXCEPT !.ret = TRUE]
            /\ UNCHANGED dccServer
       ELSE IF ~created
       THEN /\ dccServer' = [dccServer EXCEPT !.server = "none"]
            /\ lastCall' = [call EXCEPT !.err = "logged"]
       ELSE IF threaded
       THEN /\ dccServer' =
                  [dccServer EXCEPT
                      !.server = "up",
                      !.registry_file = IF saved THEN ProcessFile ELSE "",
                      !.file = dccServer.file \/ saved,
                      !.since = now,
                      !.running = TRUE]
            /\ lastCall' = [call EXCEPT !.ret = TRUE]
       ELSE /\ dccServer' = [dccServer EXCEPT !.server = "up"]
            /\ lastCall' = [call EXCEPT !.ret = TRUE]
    /\ UNCHANGED <<now, regFile, fileKind, backups, services, strategies,
                   instances, poolVars, factoryVars, stepVars, utilsCache>>

\* DCCServer.stop(): on a running server unregister_dcc_service with
\* self.registry_file, then close(), which calls server.close() once,
\* swallows what it raises and sets server to None, then running = False
ServerStop(raised) ==
    LET call == [IdleCall EXCEPT !.op = "stop", !.at = now, !.ret = TRUE]
    IN
    /\ IF ~IsRunning(dccServer)
       THEN /\ ~raised
            /\ lastCall' = call
            /\ UNCHANGED <<dccServer, regFile>>
       ELSE /\ regFile' = FactoryUnregistered(dccServer.registry_file,
                                              dccServer.file, fileKind, regFile)
            /\ dccServer' = [dccServer EXCEPT !.server = "none",
                                              !.running = FALSE]
            /\ lastCall' =
                  [call EXCEPT !.unregistered = <<dccServer.registry_file>>,
                               !.closes = 1,
                               !.err = IF raised THEN "logged" ELSE "none"]
    /\ UNCHANGED <<now, fileKind, backups, services, strategies,
                   instances, poolVars, factoryVars, stepVars, utilsCache>>

\* whether cleanup_stale_services reads the value as a list of services:
\* iterating a single service object yields its keys, and a key has no get()
IsServiceList(value) == value.shape # "object"

\* what cleanup_stale_services filters out of a list of services
StaleInList(value, t, max_age) ==
    value.shape = "list" /\ t - value.timestamp > max_age

\* utils.discovery.cleanup_stale_services(max_age) on the registry file: a
\* file that does not load as an object, or a value that is no list, raises
\* inside the try, so nothing is saved and False is returned
CleanupStaleServices(max_age) ==
    LET call == [IdleCall EXCEPT !.op = "cleanup_stale", !.at = now,
                                 !.max_age = max_age]
        loads == fileKind = "object"
                     /\ \A c \in DOMAIN regFile : IsServiceList(regFile[c])
        updated == \E c \in DOMAIN regFile : StaleInList(regFile[c], now, max_age)
    IN
    /\ IF loads
       THEN /\ regFile' = [c \in DOMAIN regFile |->
                              IF StaleInList(regFile[c], now, max_age)
                              THEN NoServices(c)
                              ELSE regFile[c]]
            /\ lastCall' = [call EXCEPT !.ret = updated]
       ELSE /\ regFile' = regFile
            /\ lastCall' = [call EXCEPT !.err = "logged"]
    /\ UNCHANGED <<now, fileKind, backups, services, strategies,
                   instances, poolVars, factoryVars, stepVars, serverVars>>

NextServer ==
    \/ Tick
    \/ \E threaded, created, saved \in BOOLEAN : ServerStart(threaded, created, saved)
    \/ \E raised \in BOOLEAN : ServerStop(raised)
    \/ \E inst \in Instances : NewStrategy(inst)
    \/ \E inst \in Instances, info \in Infos : StrategyRegister(inst, info, "ok")
    \/ \E type \in {ServerDcc, NoType} : StrategyDiscover(1, type)
    \/ \E dcc \in Categories : UtilsRegisterService(dcc, [host |-> "h1", port |-> 1])
    \/ \E max_age \in 0 .. MaxAge : CleanupStaleServices(max_age)
    \/ \E kind \in FileKinds : CorruptFile(kind)

SpecServer == Init /\ [][NextServer]_vars

(***************************************************************************)
(* DCCServer.start(threaded=True) called by two threads.                   *)
(***************************************************************************)
\* a lock that never keeps a thread out
LockFree_Always(srv) == TRUE

\* `with self.lock`: a thread enters when no thread holds the lock
LockFree(srv) == srv.lock = 0

\* a thread calls start(threaded=True) and arrives at `with self.lock`
StartCall(t) ==
    LET u == CHOOSE x \in Callers : x # t
        both == dccServer.start[u].pc \in {"waiting", "created"}
    IN  /\ dccServer.start[t].pc \in {"idle", "done"}
        /\ dccServer' =
              [dccServer EXCEPT
                  !.start[t] = [IdleStarter EXCEPT !.pc = "waiting", !.overlap = both],
                  !.start[u].overlap = @ \/ both]
        /\ UNCHANGED <<now, regFile, fileKind, backups, services, strategies,
                       instances, lastCall, poolVars, factoryVars, stepVars, utilsCache>>

\* the thread takes the lock; a running server gives the port at once;
\* otherwise self.server = self._create_server(), which may raise
StartAcquire(t, created) ==
    /\ dccServer.start[t].pc = "waiting"
    /\ LockFree(dccServer)
    /\ IF IsRunning(dccServer)
       THEN /\ created
            /\ dccServer' = [dccServer EXCEPT !.start[t].pc = "done",
                                              !.start[t].ret = "port"]
       ELSE IF ~created
       THEN dccServer' = [dccServer EXCEPT !.server = "none",
                                           !.start[t].pc = "done",
                                           !.start[t].ret = "False"]
       ELSE dccServer' = [dccServer EXCEPT !.server = "up",
                                           !.lock = t,
                                           !.start[t].pc = "created",
                                           !.start[t].made = TRUE]
    /\ UNCHANGED <<now, regFile, fileKind, backups, services, strategies,
                   instances, lastCall, poolVars, factoryVars, stepVars, utilsCache>>

\* _start_in_thread with the lock held: the server thread is started and
\* the service registered; whatever raises on the way sets server to None
\* without closing the server that was created
StartInThread(t, raised, saved) ==
    /\ dccServer.start[t].pc = "created"
    /\ dccServer.lock = t
    /\ IF raised
       THEN /\ ~saved
            /\ dccServer' = [dccServer EXCEPT !.server = "none",
                                              !.lock = 0,
                                              !.start[t].pc = "done",
                                              !.start[t].ret = "False"]
       ELSE dccServer' =
               [dccServer EXCEPT
                   !.registry_file = IF saved THEN ProcessFile ELSE "",
                   !.file = dccServer.file \/ saved,
                   !.since = now,
                   !.running = TRUE,
                   !.lock = 0,
                   !.start[t].pc = "done",
                   !.start[t].registered = TRUE,
                   !.start[t].ret = "port"]
    /\ UNCHANGED <<now, regFile, fileKind, backups, services, strategies,
                   instances, lastCall, poolVars, factoryVars, stepVars, utilsCache>>

NextStart ==
    \/ Tick
    \/ \E t \in Callers : StartCall(t)
    \/ \E t \in Callers, created \in BOOLEAN : StartAcquire(t, created)
    \/ \E t \in Callers, raised, saved \in BOOLEAN : StartInThread(t, raised, saved)

SpecStart == Init /\ [][NextStart]_vars

(***************************************************************************)
(* register_service and unregister_service of utils.discovery, called in   *)
(* one process on one registry path.                                       *)
(***************************************************************************)
\* utils.discovery.register_service(dcc_name, host, port, registry_path):
\* load_registry fills the module's _service_registry from the file the
\* first time only; the service is appended to the category's list in
\* _service_registry, and save_registry writes _service_registry, whole,
\* over the file.  Called for a category whose list there is empty or absent
ProcessRegisterService(dcc, addr) ==
    LET cache == IF utilsCache.loaded THEN utilsCache.registry ELSE regFile
        registry == Put(cache, dcc, ListEntry(dcc, addr, now))
    IN  /\ fileKind = "object"
        /\ \A c \in DOMAIN cache : cache[c].shape # "object"
        /\ dcc \in DOMAIN cache => cache[dcc].shape = "empty"
        /\ utilsCache' = [loaded |-> TRUE, registry |-> registry,
                          gone |-> utilsCache.gone \ {dcc}]
        /\ regFile' = registry
        /\ lastCall' = [IdleCall EXCEPT !.op = "utils_register", !.at = now,
                                       !.type = dcc, !.ret = TRUE]
        /\ UNCHANGED <<now, fileKind, backups, services, strategies, instances,
                       poolVars, factoryVars, stepVars, dccServer>>

\* utils.discovery.unregister_service(dcc_name, registry_path): the file
\* gets the empty list under the name; _service_registry is not touched.
\* gone keeps the names unregistered and not registered since
UtilsUnregisterService(dcc) ==
    /\ fileKind = "object"
    /\ regFile' = UtilsUnregistered(fileKind, regFile, dcc)
    /\ utilsCache' = [utilsCache EXCEPT !.gone = @ \cup {dcc}]
    /\ lastCall' = [IdleCall EXCEPT !.op = "utils_unregister", !.at = now,
                                   !.type = dcc, !.ret = TRUE]
    /\ UNCHANGED <<now, fileKind, backups, services, strategies, instances,
                   poolVars, factoryVars, stepVars, dccServer>>

NextUtils ==
    \/ Tick
    \/ \E dcc \in Categories, addr \in ServerAddrs : ProcessRegisterService(dcc, addr)
    \/ \E dcc \in Categories : UtilsUnregisterService(dcc)

SpecUtils == Init /\ [][NextUtils]_vars

GetInputs == DccNames \X (Hosts \cup {NoHost}) \X (Ports \cup {NoPort})

\* the requests that name both host and port, for which get_client skips
\* discovery
DirectInputs == {i \in GetInputs : i[2] # NoHost /\ i[3] # NoPort}

(***************************************************************************)
(* The pool used with explicit addresses; requests that leave host or port *)
(* to discovery are the subject of SpecDiscovery.                          *)
(***************************************************************************)
Next ==
    \/ Tick
    \/ \E c \in ClientIds : ConnectionLost(c)
    \/ \E n \in DccNames, k \in ClientKinds : RegisterClientClass(n, k)
    \/ \E i \in DirectInputs : GetClient(i[1], i[2], i[3], FALSE)
    \/ \E i \in DirectInputs : GlobalGetClient(i[1], i[2], i[3], FALSE)
    \/ CleanupIdleConnections
    \/ \E i \in GetInputs \cup ({"MAYA"} \X Hosts \X Ports) : CloseClient(i[1], i[2], i[3])
    \/ \E raising \in SUBSET {c \in Pooled(pool) : clients[c].kind = "CustomClient"} :
          CloseAllConnections(raising)

Spec == Init /\ [][Next]_vars

(***************************************************************************)
(* The pool with discovery at work, within one reading of the clock:      *)
(* servers register in and unregister from the registry file, callers ask  *)
(* with or without ZeroConf.                                               *)
(***************************************************************************)
NextDiscovery ==
    \/ \E n \in DccNames, k \in ClientKinds : RegisterClientClass(n, k)
    \/ \E d \in FileTypes, a \in ServerAddrs : FileRegister(d, a)
    \/ \E d \in FileTypes : FileUnregister(d)
    \/ \E i \in GetInputs, useZc \in BOOLEAN : GetClient(i[1], i[2], i[3], useZc)
    \/ \E i \in GetInputs : CloseClient(i[1], i[2], i[3])

SpecDiscovery == Init /\ [][NextDiscovery]_vars

(***************************************************************************)
(* get_client called with a host or a port and the other left to           *)
(* discovery; the call records the host and port it was given.             *)
(***************************************************************************)
GetClientGiven(name, host, port, useZc) ==
    /\ GetClientFrom(pool, clients,
                     [IdleOp EXCEPT !.op = "get_client", !.host = host, !.port = port],
                     name, host, port, useZc)
    /\ UNCHANGED <<now, lastCleanup, clientReg, regFile, fileKind, instances, lastCall,
                   factory, stepVars, serverVars>>

NextGiven ==
    \/ \E n \in DccNames, k \in ClientKinds : RegisterClientClass(n, k)
    \/ \E d \in FileTypes, a \in ServerAddrs : FileRegister(d, a)
    \/ \E i \in GetInputs \ DirectInputs, useZc \in BOOLEAN :
          GetClientGiven(i[1], i[2], i[3], useZc)

SpecGiven == Init /\ [][NextGiven]_vars

TypeOK ==
    /\ now \in 0 .. MaxTime
    /\ lastCleanup \in 0 .. now
    /\ DOMAIN pool \subseteq Keys
    /\ Pooled(pool) \subseteq DOMAIN clients
    /\ \A k \in DOMAIN pool : pool[k].ts \in 0 .. now
    /\ fileKind \in FileKinds
    /\ fileKind # "object" => regFile = <<>>
    /\ \A c \in DOMAIN regFile : regFile[c].timestamp \in 0 .. now
    /\ backups \subseteq 0 .. now
    /\ strategies \subseteq StrategyNames \cup StrategyKinds
    /\ DOMAIN strategyOf = strategies
    /\ DOMAIN factory \subseteq StrategyKinds
    /\ \A w \in Writers : writers[w].pc \in {"idle", "loaded", "saved"}
    /\ \A t \in Callers : threads.get[t].pc \in {"idle", "missed", "done"}
    /\ lastCall.at \in 0 .. now
    /\ instances.cached \in BOOLEAN
    /\ dccServer.running \in BOOLEAN
    /\ dccServer.server \in {"none", "up"}
    /\ dccServer.registry_file \in {"None", "", ProcessFile}
    /\ dccServer.running => dccServer.server = "up"
    /\ dccServer.lock \in {0} \cup Callers
    /\ dccServer.since \in 0 .. now
    /\ utilsCache.loaded \in BOOLEAN
    /\ utilsCache.gone \subseteq Categories
    /\ ~utilsCache.loaded => utilsCache.registry = <<>>
    /\ \A t \in Callers : dccServer.start[t].pc \in {"idle", "waiting", "created", "done"}

(***************************************************************************)
(* Properties of the connection pool.                                      *)
(***************************************************************************)

\* C1, as stated: a get_client for a key whose pooled handle is connected
\* and answers the probe returns that handle, constructs no client, and
\* leaves the entry with a last-used timestamp strictly greater than before.
C1_StrictlyLater ==
    [][(lastOp'.op = "get_client" /\ lastOp'.pooled # 0
            /\ lastOp'.wasConnected /\ lastOp'.pingOk)
        => /\ lastOp'.ret = lastOp'.pooled
           /\ ~lastOp'.built
           /\ pool'[lastOp'.key].ts > pool[lastOp'.key].ts]_vars

\* C1, amended: a get_client for a key whose pooled handle is connected and
\* answers the probe returns that handle, constructs no client and changes
\* no handle; the entry's last-used timestamp becomes the clock reading of
\* this call, which is never smaller than before and is strictly greater
\* exactly when the clock has advanced since the entry was last used.
C1_PoolReuse ==
    [][(lastOp'.op = "get_client" /\ lastOp'.pooled # 0
            /\ lastOp'.wasConnected /\ lastOp'.pingOk)
        => /\ lastOp'.ret = lastOp'.pooled
           /\ ~lastOp'.built
           /\ clients' = clients
           /\ pool'[lastOp'.key].client = pool[lastOp'.key].client
           /\ pool'[lastOp'.key].ts = now'
           /\ pool'[lastOp'.key].ts >= pool[lastOp'.key].ts
           /\ (pool'[lastOp'.key].ts > pool[lastOp'.key].ts
                 <=> now > pool[lastOp'.key].ts)]_vars

\* a pooled handle was reused after the clock advanced
C1_Reused ==
    /\ lastOp.op = "get_client"
    /\ lastOp.pooled # 0 /\ lastOp.wasConnected /\ lastOp.pingOk
    /\ lastOp.ret = lastOp.pooled
    /\ pool[lastOp.key].client = lastOp.ret
    /\ pool[lastOp.key].ts = now
    /\ now > 0

C3_ErrorPropagates ==
    (lastOp.op \in {"get_client", "global_get_client"}
        /\ lastOp.auto /\ ~lastOp.reach)
    => /\ lastOp.err = "ConnectionError"
       /\ lastOp.key \notin DOMAIN pool

\* C4, as stated: when the pooled handle reports not connected, get_client
\* calls connect() on it exactly once, and if the address is reachable it
\* returns that same handle and constructs no client.
C4_Reconnects ==
    (lastOp.op \in {"get_client", "global_get_client"}
        /\ lastOp.pooled # 0 /\ ~lastOp.wasConnected)
    => /\ lastOp.reconnects = 1
       /\ (lastOp.reach => lastOp.ret = lastOp.pooled /\ ~lastOp.built)

\* C5, as stated: the pooled handle is found valid exactly when it is
\* connected and its liveness probe succeeds, and get_client replaces a
\* handle found invalid by a newly constructed one.
C5_ProbeDecides ==
    (lastOp.op \in {"get_client", "global_get_client"} /\ lastOp.pooled # 0)
    => /\ (lastOp.valid <=> (lastOp.wasConnected /\ lastOp.pingOk))
       /\ (~lastOp.valid /\ lastOp.err = "none"
             => lastOp.built /\ lastOp.ret # lastOp.pooled)

\* C6, as stated: after a cleanup pass no entry idle for longer than
\* max_idle_time is left, and each evicted handle has had its close or
\* disconnect invoked exactly once.
C6_EvictedOnceClosed ==
    lastOp.op = "cleanup"
    => /\ \A k \in DOMAIN pool : ~IsIdle(pool[k], now)
       /\ \A c \in lastOp.evicted : lastOp.closes[c] + lastOp.disconnects[c] = 1

\* C7, as stated: a ConnectionPool.get_client made when more than
\* cleanup_interval has passed since the last cleanup leaves no idle entry
\* under any other key.
C7_MethodCleansUp ==
    [][(lastOp'.op = "get_client" /\ CleanupDue(now, lastCleanup))
        => \A k \in DOMAIN pool' :
              k # lastOp'.key => ~IsIdle(pool'[k], now')]_vars

\* C8: close_client never raises; when the entry exists and disconnect()
\* succeeds it has called disconnect() once on the handle, the entry is
\* gone and it returns true; when there is no entry or disconnect() raised
\* it returns false, having disconnected nothing in the first case.
C8_CloseClient ==
    lastOp.op = "close_client"
    => /\ lastOp.err = "none"
       /\ (lastOp.pooled # 0 /\ lastOp.raised = {}
             => /\ lastOp.ok
                /\ lastOp.key \notin DOMAIN pool
                /\ lastOp.disconnects = Once({lastOp.pooled}))
       /\ (lastOp.pooled = 0 \/ lastOp.raised # {} => ~lastOp.ok)
       /\ (lastOp.pooled = 0 => lastOp.disconnects = Zeros)

\* close_client removed an entry, with other entries left in the pool
C8_Closed ==
    /\ lastOp.op = "close_client"
    /\ lastOp.pooled # 0 /\ lastOp.ok
    /\ lastOp.key \notin DOMAIN pool
    /\ pool # <<>>

\* C9: close_all_connections calls disconnect() exactly once on every
\* handle that was pooled and on no other, and leaves the pool empty, also
\* when some of the disconnect() calls raise.
C9_CloseAll ==
    lastOp.op = "close_all"
    => /\ pool = <<>>
       /\ clients = <<>>
       /\ lastOp.err = "none"
       /\ lastOp.disconnects = Once(lastOp.evicted)

\* close_all_connections emptied a pool of two handles, one of which raised
C9_ClosedAll ==
    /\ lastOp.op = "close_all"
    /\ Cardinality(lastOp.evicted) = 2
    /\ Cardinality(lastOp.raised) = 1
    /\ pool = <<>>

\* C10: a get_client with host or port omitted attempts discovery: the file
\* registry unless ZeroConf was enabled and found a service; a get_client
\* with both given attempts none.  When discovery finds no address the call
\* fails with service-not-found, and a call that fails so has constructed
\* no client and left the pool and its handles as they were.
C10_NotFound ==
    [][lastOp'.op = "get_client"
        => /\ (lastOp'.needDisc
                 => lastOp'.fileTried \/ (lastOp'.zcTried /\ lastOp'.found # NoAddr))
           /\ (lastOp'.zcTried /\ lastOp'.found = NoAddr => lastOp'.fileTried)
           /\ (~lastOp'.needDisc => ~lastOp'.zcTried /\ ~lastOp'.fileTried)
           /\ (lastOp'.needDisc /\ lastOp'.found = NoAddr => lastOp'.err = "NotFound")
           /\ (lastOp'.err = "NotFound"
                 => /\ ~lastOp'.built /\ lastOp'.ret = 0
                    /\ pool' = pool /\ clients' = clients)]_vars

\* ZeroConf and then the file registry found nothing, with a handle pooled
C10_NothingFound ==
    /\ lastOp.op = "get_client"
    /\ lastOp.needDisc /\ lastOp.zcTried /\ lastOp.fileTried
    /\ lastOp.found = NoAddr
    /\ lastOp.err = "NotFound"
    /\ lastOp.ret = 0
    /\ pool # <<>>

\* C11, as stated: a get_client for a category that has no client class
\* registered does not fail on that account: it constructs a standard
\* client (BaseDCCClient) and returns it.
C11_FallsBack ==
    (lastOp.op \in {"get_client", "global_get_client"}
        /\ lastOp.key # <<>>
        /\ lastOp.key[1] \notin DOMAIN clientReg)
    => /\ lastOp.err = "none"
       /\ lastOp.ret # 0
       /\ clients[lastOp.ret].kind = "BaseDCCClient"

\* a call of the file strategy made in the step: the clock stands still
\* during a call and the call records its clock reading
FileCallStep(op) == lastCall'.op = op /\ now' = now /\ lastCall'.at = now

\* C12: File round trip.  A register_service of a valid record (metadata that
\* JSON represents) whose write succeeds, followed, before the record is
\* stale, by discover_services of its category (or of every category), made
\* by the same or by another strategy instance on the same file, returns
\* exactly one record of that category, equal to the registered one in name,
\* host, port, category and metadata.
C12_RoundTrip ==
    [][(/\ lastCall.op = "register"
        /\ lastCall.io = "ok"
        /\ IsJsonNative(lastCall.info.metadata)
        /\ lastCall'.op = "discover"
        /\ lastCall'.type \in {lastCall.info.dcc_type, NoType}
        /\ lastCall'.at = now'
        /\ now' - lastCall.at <= MaxAge)
       => /\ lastCall'.err = "none"
          /\ \E i \in DOMAIN lastCall'.found : lastCall'.found[i] = lastCall.info
          /\ \A i \in DOMAIN lastCall'.found :
                lastCall'.found[i].dcc_type = lastCall.info.dcc_type
                => lastCall'.found[i] = lastCall.info]_vars

\* a discover through instance 2, one clock tick after the registration,
\* returns the record with metadata that only register_service writes
C12_SecondInstanceReads ==
    /\ lastCall.op = "discover"
    /\ lastCall.inst = 2
    /\ lastCall.at = now
    /\ lastCall.type = "maya"
    /\ lastCall.found = <<Service("maya", "maya-2", "h1", 2, {<<"version", "2023">>})>>
    /\ regFile["maya"].timestamp = now - MaxAge

\* C13: Staleness.  discover_services returns the record of a category it
\* is asked for exactly when now - timestamp <= 3600 (MaxAge): up to and
\* including the clock reading timestamp + MaxAge, and by no query after;
\* the query leaves the record, stale or not, in the file.
C13_Staleness ==
    [][FileCallStep("discover")
       => /\ regFile' = regFile
          /\ \A c \in DOMAIN regFile :
                (regFile[c].shape = "object" /\ lastCall'.type \in {c, NoType})
                => ((\E i \in DOMAIN lastCall'.found : lastCall'.found[i].dcc_type = c)
                    <=> now - regFile[c].timestamp <= MaxAge)]_vars

\* a query one tick after timestamp + MaxAge returns nothing for a record
\* that is still in the file
C13_StaleSkipped ==
    /\ lastCall.op = "discover"
    /\ lastCall.at = now
    /\ lastCall.type = "maya"
    /\ lastCall.found = <<>>
    /\ "maya" \in DOMAIN regFile
    /\ regFile["maya"].shape = "object"
    /\ now - regFile["maya"].timestamp = MaxAge + 1

\* C14, as stated: register_service returns false on any I/O or
\* serialization error, a failure to write the registry file included, and
\* never raises; it returns true only if the entry was persisted.
C14_FalseUnlessPersisted ==
    (lastCall.op = "register" /\ lastCall.at = now)
    => /\ lastCall.err = "none"
       /\ lastCall.io # "ok" => ~lastCall.ret
       /\ lastCall.ret => /\ fileKind = "object"
                          /\ lastCall.info.dcc_type \in DOMAIN regFile
                          /\ regFile[lastCall.info.dcc_type] = Entry(lastCall.info, now)

\* C15, as stated: when the registry file is not JSON or its top level is
\* not an object, discover_services returns the empty list without raising,
\* a backup copy of the file stamped with the time of the call exists, and
\* the in-memory store is empty.
C15_CorruptionBackedUp ==
    (lastCall.op = "discover" /\ lastCall.at = now /\ fileKind # "object")
    => /\ lastCall.err = "none"
       /\ lastCall.found = <<>>
       /\ lastCall.store = <<>>
       /\ now \in backups

\* C16: unregister_service of a category that the registry file does not
\* hold returns false without raising and leaves the file, so the record of
\* every other category, as it was.
C16_UnregisterMissing ==
    [][(/\ FileCallStep("unregister")
        /\ lastCall'.info.dcc_type \notin DOMAIN LoadRegistry(fileKind, regFile))
       => /\ ~lastCall'.ret
          /\ lastCall'.err = "none"
          /\ regFile' = regFile
          /\ fileKind' = fileKind]_vars

\* an unregister of houdini returned false and the record of maya is still
\* in the file
C16_OtherKept ==
    /\ lastCall.op = "unregister"
    /\ lastCall.at = now
    /\ lastCall.info.dcc_type = "houdini"
    /\ ~lastCall.ret
    /\ ~lastCall.had
    /\ "maya" \in DOMAIN regFile
    /\ regFile["maya"].shape = "object"

\* C17: The file holds at most one record per category.  A register_service
\* that is written replaces the record of its category as a whole (name,
\* host, port, timestamp, metadata) and touches no other category; after
\* any sequence of register and unregister calls discover_services returns
\* at most one record per category, the one the file holds, which is the one
\* written last.
C17_OnePerCategory ==
    [][/\ (FileCallStep("register") /\ lastCall'.io = "ok")
          => /\ DOMAIN regFile' = DOMAIN LoadRegistry(fileKind, regFile)
                                  \cup {lastCall'.info.dcc_type}
             /\ \A c \in DOMAIN regFile' :
                   regFile'[c] = IF c = lastCall'.info.dcc_type
                                 THEN [shape |-> "object",
                                       name |-> lastCall'.info.name,
                                       host |-> lastCall'.info.host,
                                       port |-> lastCall'.info.port,
                                       timestamp |-> now,
                                       metadata |-> JsonRoundTrip(lastCall'.info.metadata)]
                                 ELSE regFile[c]
       /\ FileCallStep("discover")
          => /\ \A i, j \in DOMAIN lastCall'.found :
                   lastCall'.found[i].dcc_type = lastCall'.found[j].dcc_type => i = j
             /\ lastCall'.type # NoType => Len(lastCall'.found) <= 1
             /\ \A i \in DOMAIN lastCall'.found :
                   LET c == lastCall'.found[i].dcc_type
                   IN  /\ c \in DOMAIN regFile
                       /\ lastCall'.found[i] =
                             Service(c, regFile[c].name, regFile[c].host,
                                     regFile[c].port, regFile[c].metadata)]_vars

\* a register of maya-1 into a file that already had a value for maya
\* leaves the record of maya-1, and nothing else, under the category
C17_Replaced ==
    /\ lastCall.op = "register"
    /\ lastCall.at = now
    /\ lastCall.io = "ok"
    /\ lastCall.had
    /\ lastCall.info.name = "maya-1"
    /\ regFile["maya"] = Entry(lastCall.info, now)
    /\ regFile["maya"].metadata = NoMeta

\* C19, as stated: discover_services reads both on-disk shapes of a
\* category's value, a single service object and a list of service objects:
\* every category of the file that is asked for and whose service is not
\* stale has a service in the result.
C19_BothShapes ==
    (lastCall.op = "discover" /\ lastCall.at = now /\ fileKind = "object")
    => \A c \in DOMAIN regFile :
          (lastCall.type \in {c, NoType} /\ ~IsStale(regFile[c], now))
          => \E i \in DOMAIN lastCall.found :
                /\ lastCall.found[i].dcc_type = c
                /\ lastCall.found[i].host = regFile[c].host
                /\ lastCall.found[i].port = regFile[c].port

\* C18, as stated: after two services of the same category with different
\* names and ports were registered through ServiceRegistry.register_service
\* on the file strategy (both are in the service cache, neither was
\* unregistered), get_available_dcc_instances(refresh=True) lists both
\* under the category.
C18_ListsBoth ==
    (/\ lastCall.op = "instances"
     /\ lastCall.refresh
     /\ "file" \in strategies
     /\ lastCall.raising = {})
    => \A i, j \in DOMAIN services :
          (/\ services[i].dcc_type = services[j].dcc_type
           /\ services[i].name # services[j].name
           /\ services[i].port # services[j].port)
          => \E k \in DOMAIN lastCall.listed :
                /\ lastCall.listed[k].category = Lower(services[i].dcc_type)
                /\ lastCall.listed[k].name = services[i].name
                /\ lastCall.listed[k].host = services[i].host
                /\ lastCall.listed[k].port = services[i].port

\* a call of the ServiceRegistry made in the step
RegistryCallStep ==
    /\ lastCall'.op \in {"registry_discover", "registry_register", "registry_unregister"}
    /\ lastCall' # lastCall

\* C20: ServiceRegistry.discover_services, register_service and
\* unregister_service raise ValueError exactly when the strategy name is not
\* registered, and then leave the strategy map, the service cache and the
\* registry file as they were; with a registered strategy they return
\* without an error, an empty result included.
C20_UnknownStrategy ==
    [][RegistryCallStep
       => IF lastCall'.strategy \in strategies
          THEN lastCall'.err = "none"
          ELSE /\ lastCall'.err = "ValueError"
               /\ strategies' = strategies
               /\ services' = services
               /\ instances' = instances
               /\ regFile' = regFile]_vars

\* register_service under the name "other" raised while only "file" is
\* registered and the cache holds a service
C20_Raised ==
    /\ lastCall.op = "registry_register"
    /\ lastCall.err = "ValueError"
    /\ lastCall.strategy = "other"
    /\ strategies = {"file"}
    /\ services # <<>>

\* C21: Multi-strategy merge.  In the result of
\* get_available_dcc_instances(refresh=True) no two instances of a category
\* have the same host and port: a service that two strategies report, or
\* that is filed under two spellings of the category, is listed once.
C21_MergedOnce ==
    (lastCall.op = "instances" /\ lastCall.refresh)
    => \A i, j \in DOMAIN lastCall.listed :
          (/\ lastCall.listed[i].category = lastCall.listed[j].category
           /\ lastCall.listed[i].host = lastCall.listed[j].host
           /\ lastCall.listed[i].port = lastCall.listed[j].port)
          => i = j

\* with two strategies registered on a file that holds one service, the
\* refreshed result has that one instance
C21_TwoStrategiesOneEntry ==
    /\ lastCall.op = "instances"
    /\ lastCall.refresh
    /\ strategies = {"file", "other"}
    /\ DOMAIN regFile = {"maya"}
    /\ Len(lastCall.listed) = 1
    /\ lastCall.listed[1].category = "maya"
    /\ lastCall.listed[1].port = regFile["maya"].port

\* a call of get_available_dcc_instances made in the step
InstancesCallStep == lastCall'.op = "instances" /\ lastCall' # lastCall

\* C22: get_available_dcc_instances(refresh=False) with a cached result
\* returns the cached result as it is and calls no strategy (the service
\* cache and the cached result stay as they were), whatever was registered
\* or removed since.  With refresh=True, or with nothing cached, it runs the
\* discovery of the registered strategies again: its result lists the
\* services of the file (when a strategy answers), and only those, and
\* becomes the cached result.
C22_RefreshOrCache ==
    [][InstancesCallStep
       => IF instances.cached /\ ~lastCall'.refresh
          THEN /\ lastCall'.listed = instances.listed
               /\ instances' = instances
               /\ services' = services
               /\ backups' = backups
          ELSE /\ instances' = [cached |-> TRUE, listed |-> lastCall'.listed]
               /\ \A k \in DOMAIN lastCall'.listed :
                     /\ strategies \ lastCall'.raising # {}
                     /\ \E c \in DOMAIN regFile :
                           /\ lastCall'.listed[k].category = Lower(c)
                           /\ lastCall'.listed[k].host = regFile[c].host
                           /\ lastCall'.listed[k].port = regFile[c].port
               /\ strategies \ lastCall'.raising # {}
                  => \A c \in DOMAIN regFile :
                        \E k \in DOMAIN lastCall'.listed :
                           /\ lastCall'.listed[k].category = Lower(c)
                           /\ lastCall'.listed[k].host = regFile[c].host
                           /\ lastCall'.listed[k].port = regFile[c].port]_vars

\* a call with refresh=False returned the cached empty result although a
\* service was registered since
C22_ServedFromCache ==
    /\ lastCall.op = "instances"
    /\ ~lastCall.refresh
    /\ instances = [cached |-> TRUE, listed |-> <<>>]
    /\ lastCall.listed = <<>>
    /\ lastCall.order = <<>>
    /\ strategies # {}
    /\ regFile # <<>>

\* C23: Per-strategy failure isolation.  When a registered strategy raises
\* during get_available_dcc_instances the call does not raise, and, in
\* whatever order the strategies are asked, its result has every instance
\* that a strategy which did not raise reports.
C23_FailureIsolated ==
    [][(/\ InstancesCallStep
        /\ ~(instances.cached /\ ~lastCall'.refresh)
        /\ lastCall'.raising # {})
       => /\ lastCall'.err = "none"
          /\ instances' = [cached |-> TRUE, listed |-> lastCall'.listed]
          /\ strategies \ lastCall'.raising # {}
             => \A c \in DOMAIN regFile :
                   \E k \in DOMAIN lastCall'.listed :
                      /\ lastCall'.listed[k].category = Lower(c)
                      /\ lastCall'.listed[k].host = regFile[c].host
                      /\ lastCall'.listed[k].port = regFile[c].port]_vars

\* the strategy asked first raised and the service the second one reports
\* is listed
C23_FirstRaised ==
    /\ lastCall.op = "instances"
    /\ lastCall.order = <<"file", "other">>
    /\ lastCall.raising = {"file"}
    /\ DOMAIN regFile = {"maya"}
    /\ Len(lastCall.listed) = 1
    /\ lastCall.listed[1].name = regFile["maya"].name

\* C24, as stated: the ServiceRegistry keeps its cache in step.  After
\* register_service(strategy, record) succeeds, get_service(record.category,
\* record.name) returns the record; after unregister_service(strategy,
\* record) succeeds the cache does not contain the record; when the strategy
\* reports failure the cache is unchanged and the failure value is returned.
C24_CacheInStep ==
    [][(RegistryCallStep /\ lastCall'.err = "none")
       => /\ lastCall'.op = "registry_register"
             => IF lastCall'.ret
                THEN GetServiceNamed(services', lastCall'.info.dcc_type,
                                     lastCall'.info.name) = lastCall'.info
                ELSE services' = services
          /\ lastCall'.op = "registry_unregister"
             => IF lastCall'.ret
                THEN \A i \in DOMAIN services' :
                        ServiceKey(services'[i]) # ServiceKey(lastCall'.info)
                ELSE services' = services]_vars

\* a call of ensure_strategy made in the step
EnsureCallStep == lastCall'.op = "ensure" /\ lastCall' # lastCall

\* C25: ensure_strategy(kind, **kwargs) is get-or-create.  With no strategy
\* registered under the kind it takes the strategy from the factory and
\* registers it under the kind, constructed with the kwargs of the call when
\* the factory builds it; with a strategy registered under the kind it
\* returns that instance, whatever the kwargs, and changes nothing; a kind
\* the factory cannot give (unknown, or not available) raises ValueError and
\* registers nothing.  Two calls in a row with the same kind return the
\* same instance.
C25_GetOrCreate ==
    [][EnsureCallStep
       => LET kind == lastCall'.strategy
              gone == \/ kind = "invalid"
                      \/ kind = "zeroconf" /\ ~lastCall'.avail /\ kind \notin DOMAIN factory
          IN  /\ kind \in strategies
                 => /\ lastCall'.err = "none"
                    /\ lastCall'.made = strategyOf[kind]
                    /\ strategyOf' = strategyOf
                    /\ strategies' = strategies
              /\ (kind \notin strategies /\ gone)
                 => /\ lastCall'.err = "ValueError"
                    /\ strategyOf' = strategyOf
                    /\ strategies' = strategies
              /\ (kind \notin strategies /\ ~gone)
                 => /\ lastCall'.err = "none"
                    /\ lastCall'.made.by = "factory"
                    /\ lastCall'.made.kind = kind
                    /\ kind \notin DOMAIN factory
                       => lastCall'.made.kwargs = lastCall'.kwargs
                    /\ strategies' = strategies \cup {kind}
                    /\ strategyOf'[kind] = lastCall'.made
                    /\ \A n \in strategies : strategyOf'[n] = strategyOf[n]
              /\ (lastCall.op = "ensure" /\ lastCall.err = "none"
                  /\ lastCall.strategy = kind)
                 => /\ lastCall'.err = "none"
                    /\ lastCall'.made = lastCall.made]_vars

\* a later call with other kwargs returned the instance that the first call
\* had built with the default kwargs, and it is the one registered
C25_FirstBuiltReturned ==
    /\ lastCall.op = "ensure"
    /\ lastCall.strategy = "file"
    /\ lastCall.kwargs = "custom"
    /\ lastCall.err = "none"
    /\ lastCall.made = StrategyInstance("factory", "file", "default")
    /\ strategyOf["file"] = lastCall.made

\* C26: Register is a load-modify-save cycle without locking.  What a
\* process writes is the store it loaded at the start of its call with its
\* own entry put in, whatever another process wrote to the file in between;
\* so when two processes register different categories at the same time
\* there is an interleaving after which the file holds only one of the two.
C26_LoadModifySave ==
    [][\A w \in Writers :
          (writers[w].pc = "loaded" /\ writers'[w].pc = "saved")
          => /\ lastCall'.ret
             /\ DOMAIN regFile' = DOMAIN writers[w].loaded \cup {writers[w].info.dcc_type}
             /\ \A c \in DOMAIN writers[w].loaded :
                   c # writers[w].info.dcc_type => regFile'[c] = writers[w].loaded[c]]_vars

\* both processes loaded the empty file, both registered with success, one
\* maya and one houdini, and the file holds houdini only
C26_LostUpdate ==
    /\ writers[1].pc = "saved"
    /\ writers[2].pc = "saved"
    /\ writers[1].loaded = <<>>
    /\ writers[2].loaded = <<>>
    /\ writers[1].info.dcc_type = "maya"
    /\ writers[2].info.dcc_type = "houdini"
    /\ DOMAIN regFile = {"houdini"}
    /\ lastCall.op = "register"
    /\ lastCall.ret

\* C27, as stated: the lookup and the insertion of get_client are atomic.
\* When a thread calls get_client for a key while another thread is inside
\* get_client for the same key, having found no valid entry, and both calls
\* have returned, one client was constructed, both threads have the same
\* handle, and no handle they were given is outside the pool.
C27_AtomicInsert ==
    \A t, u \in Callers :
       (/\ t # u
        /\ threads.get[t].pc = "done"
        /\ threads.get[u].pc = "done"
        /\ threads.get[t].key = threads.get[u].key
        /\ threads.get[u].overlap
        /\ threads.sweep.pc = "idle"
        /\ threads.get[t].key \in DOMAIN pool)
       => /\ threads.get[t].ret = threads.get[u].ret
          /\ ~(threads.get[t].built /\ threads.get[u].built)
          /\ threads.get[t].ret = pool[threads.get[t].key].client

\* C28, as stated: cleanup_idle_connections and close_all_connections work
\* on a snapshot of the pool.  Run while other threads call get_client or
\* close_client they do not raise, and they take out of the pool no entry
\* whose handle they did not disconnect or close.
C28_SnapshotSweep ==
    /\ threads.sweep.err = "none"
    /\ threads.sweep.dropped \subseteq threads.sweep.closed

\* a call of DCCServer.stop made in the step
StopCallStep == lastCall'.op = "stop" /\ lastCall' # lastCall

\* C29: DCCServer.stop() on a running server returns True and leaves
\* running False, server None and registry_file None, having called
\* unregister_dcc_service once with the stored registry file and
\* server.close() exactly once; on a server that is not running it returns
\* True and changes neither the server object nor the registry file.
C29_StopResets ==
    [][StopCallStep =>
          IF IsRunning(dccServer)
          THEN /\ lastCall'.ret = TRUE
               /\ dccServer'.running = FALSE
               /\ dccServer'.server = "none"
               /\ dccServer'.registry_file = "None"
               /\ lastCall'.unregistered = <<dccServer.registry_file>>
               /\ lastCall'.closes = 1
          ELSE /\ lastCall'.ret = TRUE
               /\ UNCHANGED <<dccServer, regFile, fileKind>>]_vars

\* a call of cleanup_stale_services made in the step
CleanupCallStep == lastCall'.op = "cleanup_stale" /\ lastCall' # lastCall

\* C30: cleanup_stale_services(max_age) removes from the registry file
\* exactly the service entries with now - timestamp > max_age, keeps every
\* other entry as it was, and returns True exactly when it removed at least
\* one entry, whether register_service of utils.discovery or
\* FileDiscoveryStrategy.register_service wrote the entry.
C30_RemovesExactlyStale ==
    [][CleanupCallStep =>
          LET Holds(c) == regFile[c].shape \in {"object", "list"}
              Stale(c) == Holds(c) /\ now - regFile[c].timestamp > lastCall'.max_age
          IN  /\ \A c \in DOMAIN regFile :
                    IF Stale(c)
                    THEN c \notin DOMAIN regFile' \/ regFile'[c].shape = "empty"
                    ELSE c \in DOMAIN regFile' /\ regFile'[c] = regFile[c]
              /\ DOMAIN regFile' \subseteq DOMAIN regFile
              /\ lastCall'.ret = (\E c \in DOMAIN regFile : Stale(c))]_vars

\* C31: cleanup_idle_connections leaves every entry whose idle time is at
\* most max_idle_time in the pool with the same handle and timestamp, leaves
\* that handle as it was and calls neither close() nor disconnect() on it,
\* and sets last_cleanup to the time of the pass.
C31_KeepsFresh ==
    [][lastOp'.op = "cleanup"
        => /\ lastCleanup' = now
           /\ now' = now
           /\ \A k \in DOMAIN pool :
                 now - pool[k].ts <= MaxIdleTime
                 => /\ k \in DOMAIN pool'
                    /\ pool'[k] = pool[k]
                    /\ pool[k].client \in DOMAIN clients'
                    /\ clients'[pool[k].client] = clients[pool[k].client]
                    /\ lastOp'.closes[pool[k].client] = 0
                    /\ lastOp'.disconnects[pool[k].client] = 0]_vars

\* a pass evicted an idle entry and kept one idle for exactly max_idle_time
C31_KeptAtMaxIdle ==
    /\ lastOp.op = "cleanup"
    /\ lastOp.cleaned # {}
    /\ lastCleanup = now
    /\ \E k \in DOMAIN pool : now - pool[k].ts = MaxIdleTime

\* C32: register_service reloads the file before it writes.  A written
\* register of category B through one strategy instance, made after a
\* written register of category A through another instance on the same
\* file, leaves A's entry as it was next to B's; and a discover_services of
\* every category returns the record of each service object in the file
\* that is not stale, so both A and B.
C32_ReloadPreserves ==
    [][/\ (/\ FileCallStep("register")
           /\ lastCall'.io = "ok"
           /\ lastCall.op = "register"
           /\ lastCall.io = "ok"
           /\ lastCall.inst # lastCall'.inst
           /\ lastCall.info.dcc_type # lastCall'.info.dcc_type)
          => /\ lastCall.info.dcc_type \in DOMAIN regFile'
             /\ regFile'[lastCall.info.dcc_type] = Entry(lastCall.info, lastCall.at)
             /\ regFile'[lastCall'.info.dcc_type] = Entry(lastCall'.info, now)
       /\ (FileCallStep("discover") /\ lastCall'.type = NoType)
          => \A c \in DOMAIN regFile :
                (regFile[c].shape = "object" /\ now - regFile[c].timestamp <= MaxAge)
                => \E i \in DOMAIN lastCall'.found :
                      lastCall'.found[i] =
                         Service(c, regFile[c].name, regFile[c].host,
                                 regFile[c].port, regFile[c].metadata)]_vars

\* a discover of every category returns the records of two categories, one
\* registered a clock tick after the other
C32_BothDiscovered ==
    /\ lastCall.op = "discover"
    /\ lastCall.at = now
    /\ lastCall.type = NoType
    /\ Len(lastCall.found) = 2
    /\ {"maya", "houdini"} \subseteq DOMAIN regFile
    /\ regFile["maya"].timestamp = 0
    /\ regFile["houdini"].timestamp = 1
    /\ regFile["maya"].name = "maya-2"

\* C33, as stated: two threads whose calls of start(threaded=True) on one
\* server overlap create at most one underlying server between them and
\* register the service at most once; a start() that finds the server
\* running returns the port and creates no server.
C33_OneServer ==
    \A t, u \in Callers :
       (/\ t # u
        /\ dccServer.start[t].pc = "done" /\ dccServer.start[u].pc = "done"
        /\ dccServer.start[t].overlap /\ dccServer.start[u].overlap)
       => /\ ~(dccServer.start[t].made /\ dccServer.start[u].made)
          /\ ~(dccServer.start[t].registered /\ dccServer.start[u].registered)
          /\ (dccServer.start[t].ret = "port" /\ ~dccServer.start[t].made
                => ~dccServer.start[t].registered)

\* C33, amended: the lock lets one thread at a time through start().  Of
\* two threads whose calls of start(threaded=True) overlap, never both are
\* between creating the server and returning; the second creates a server
\* only when the first returned False; the service is registered at most
\* once; a call that finds the server running returns the port, creates no
\* server and registers nothing.
C33_OneAtATime ==
    \A t, u \in Callers :
       t # u
       => /\ ~(dccServer.start[t].pc = "created" /\ dccServer.start[u].pc = "created")
          /\ (/\ dccServer.start[t].pc = "done" /\ dccServer.start[u].pc = "done"
              /\ dccServer.start[t].overlap /\ dccServer.start[u].overlap)
             => /\ (dccServer.start[t].made /\ dccServer.start[u].made
                      => "False" \in {dccServer.start[t].ret, dccServer.start[u].ret})
                /\ ~(dccServer.start[t].registered /\ dccServer.start[u].registered)
                /\ (dccServer.start[t].ret = "port" /\ ~dccServer.start[t].made
                      => ~dccServer.start[t].registered)

\* two overlapping calls have returned the port: one created and registered
\* the server, the other found it running
C33_SecondFoundRunning ==
    \E t, u \in Callers :
       /\ t # u
       /\ dccServer.start[t].pc = "done" /\ dccServer.start[u].pc = "done"
       /\ dccServer.start[t].overlap /\ dccServer.start[u].overlap
       /\ dccServer.start[t].ret = "port" /\ dccServer.start[u].ret = "port"
       /\ dccServer.start[t].made /\ dccServer.start[t].registered
       /\ ~dccServer.start[u].made /\ ~dccServer.start[u].registered
       /\ dccServer.running

\* C34, as stated: once utils.discovery.unregister_service(dcc, path) has
\* returned True the registry file lists no service for dcc, and it stays so
\* through register_service calls for other names on the same path in the
\* same process, until dcc is registered again.
C34_StaysUnregistered ==
    \A dcc \in utilsCache.gone :
       dcc \in DOMAIN regFile => regFile[dcc].shape = "empty"

\* C35, as stated: a get_client without host or port resolves the address
\* from what discovery finds now.  When the registry file holds no service
\* of the category that is not stale (it was unregistered, or went stale)
\* and ZeroConf reports none, the call (for a category that has a client
\* class) fails with service-not-found and constructs or returns no client.
C35_CurrentDiscoveryOnly ==
    [][(/\ lastOp'.op = "get_client"
        /\ lastOp'.needDisc
        /\ lastOp'.fileTried
        /\ \A n \in DccNames : GetClientClass(clientReg, n) # NoClass
        /\ \A c \in DOMAIN regFile : c \in DccNames => IsStale(regFile[c], now))
       => /\ lastOp'.err = "NotFound"
          /\ lastOp'.ret = 0
          /\ pool' = pool]_vars

\* C36, as stated: a host or a port the caller of get_client supplies is
\* never replaced by discovery.  A call that returns a client pools the
\* client under the host the caller gave, if it gave one, and under the port
\* the caller gave, if it gave one; only the missing value is discovered.
C36_CallerValueKept ==
    (lastOp.op = "get_client" /\ lastOp.ret # 0)
    => /\ (lastOp.host # NoHost => lastOp.key[2] = lastOp.host)
       /\ (lastOp.port # NoPort => lastOp.key[3] = lastOp.port)

\* C37, as stated: after DCCServer.start(threaded=True) has registered the
\* service and returned the port, a discover_services of a
\* FileDiscoveryStrategy on the default registry path, asked for the
\* server's dcc_name or for every category while the server runs and the
\* registration is not older than the max age, returns a service of that
\* dcc_name.
C37_ServerDiscovered ==
    [][(/\ FileCallStep("discover")
        /\ lastCall'.type \in {ServerDcc, NoType}
        /\ dccServer.running
        /\ dccServer.registry_file = ProcessFile
        /\ now - dccServer.since <= MaxAge)
       => \E i \in DOMAIN lastCall'.found :
             lastCall'.found[i].dcc_type = ServerDcc]_vars

\* C38, as stated: server.discovery.unregister_dcc_service(registry_path)
\* acts on the file at registry_path only.  Called with another path than
\* the default one it leaves the default registry file as it was, whatever
\* file strategy the ServiceRegistry had; and when the file at registry_path
\* lists no service it returns False and changes no file.
C38_OnlyThatFile ==
    [][(lastCall'.op = "unregister_dcc" /\ lastCall' # lastCall)
       => /\ lastCall'.kwargs = "custom"
             => /\ regFile' = regFile
                /\ lastCall'.listed = <<>> => ~lastCall'.ret
          /\ (/\ lastCall'.kwargs = "default"
              /\ FileDiscover(LoadRegistry(fileKind, regFile), NoType, now) = <<>>)
             => ~lastCall'.ret /\ regFile' = regFile]_vars

\* C39: In every instance dict that get_available_dcc_instances builds, the
\* name, host, port and dcc_type are those of a discovered record: no
\* metadata key of one of these four names is among the keys taken from the
\* metadata, and every other metadata key of the record is.
C39_FixedKeysKept ==
    [][(InstancesCallStep /\ ~UseCached(instances, lastCall'.refresh))
       => LET found == FileDiscover(LoadRegistry(fileKind, regFile), NoType, now)
          IN  \A i \in DOMAIN lastCall'.listed :
                 LET inst == lastCall'.listed[i]
                 IN  \E k \in DOMAIN found :
                        /\ inst.name = found[k].name
                        /\ inst.host = found[k].host
                        /\ inst.port = found[k].port
                        /\ inst.dcc_type = found[k].dcc_type
                        /\ inst.extra = {kv \in found[k].metadata :
                                            kv[1] \notin InstanceKeys}]_vars

\* the result lists a service registered with a metadata key "name" under its
\* own name, and another one with its "version" metadata as a key
C39_NameNotOverwritten ==
    /\ lastCall.op = "instances"
    /\ lastCall.order # <<>>
    /\ "Maya" \in DOMAIN regFile
    /\ <<"name", "other">> \in regFile["Maya"].metadata
    /\ \E i, j \in DOMAIN lastCall.listed :
          /\ lastCall.listed[i].name = "maya-3"
          /\ lastCall.listed[i].dcc_type = "Maya"
          /\ lastCall.listed[i].extra = {}
          /\ lastCall.listed[j].name = "maya-2"
          /\ lastCall.listed[j].extra = {<<"version", "2023">>}

\* C40: Pool keys are case-insensitive in the category.  After every
\* operation of the pool each key has a lowercased category; a
\* get_client('Maya', h, p) that finds a valid entry made under 'maya'
\* returns its handle and adds no entry; a close_client('MAYA', h, p) calls
\* disconnect() on the handle of that entry and, unless disconnect() raised,
\* removes the entry and returns True.
C40_CaseInsensitiveKeys ==
    [][/\ \A k \in DOMAIN pool' : k[1] \notin {"Maya", "MAYA"}
       /\ \A h \in Hosts, p \in Ports :
             LET key == <<"maya", h, p>>
             IN  /\ (/\ key \in DOMAIN pool
                     /\ lastOp' # lastOp
                     /\ lastOp'.op = "get_client"
                     /\ lastOp'.name = "Maya"
                     /\ lastOp'.key = key
                     /\ lastOp'.valid)
                    => /\ lastOp'.ret = pool[key].client
                       /\ DOMAIN pool' = DOMAIN pool
                       /\ pool'[key].client = pool[key].client
                 /\ (/\ key \in DOMAIN pool
                     /\ lastOp' # lastOp
                     /\ lastOp'.op = "close_client"
                     /\ lastOp'.name = "MAYA"
                     /\ lastOp'.key = key)
                    => /\ lastOp'.disconnects[pool[key].client] = 1
                       /\ lastOp'.raised = {}
                          => /\ lastOp'.ok
                             /\ key \notin DOMAIN pool']_vars

\* a close_client('MAYA', h, p) closed the entry that get_client made under
\* another spelling of the name
C40_ClosedByOtherCase ==
    /\ lastOp.op = "close_client"
    /\ lastOp.name = "MAYA"
    /\ lastOp.ok
    /\ lastOp.pooled # 0
    /\ lastOp.key[1] = "maya"
    /\ lastOp.key \notin DOMAIN pool

====
